---------------------------- MODULE Spec2Model ----------------------------
(***************************************************************************)
(* Verification model of the natural-language-to-SQL pipeline of the chat  *)
(* server: the safety validator (executeSQLQuery), the retry layer         *)
(* (executeWithRetry), the chat route (router.post('/')), the schema       *)
(* snapshot cache (getSchema / refreshSchema / cacheSchema), the schema    *)
(* introspection (getCompleteSchema), the smart query templates            *)
(* (executeSmartQuery), the pool's 'error' handler, the extraction of the  *)
(* statement from the oracle's reply (generateSQLFromQuestion) and the     *)
(* health probe (checkDatabaseHealth).                                     *)
(*                                                                         *)
(* A SQL statement is a sequence of lexical tokens; consecutive tokens are *)
(* separated by a blank unless one of them is the newline token, so every  *)
(* word token is a whole word in the sense of the regular expression \b.   *)
(***************************************************************************)
EXTENDS Integers, Sequences, FiniteSets, Bags, TLC

(***************************************************************************)
(* Bounds of the model.                                                    *)
(***************************************************************************)
\* longest free part of a candidate statement, in tokens
MaxBody == 4
\* largest maxRetries executeWithRetry is called with
MaxRetriesBound == 3
\* most getSchema calls and background refreshes in flight at a time
MaxInFlight == 2
\* hours the wall clock advances
MaxClock == 2
\* most tables the catalog lists
MaxTables == 51
\* the first tables of the catalog, whose sub-queries may fail
MaxFailing == 2
\* most pool 'error' events in a run
MaxPoolEvents == 4
\* most lines of an oracle reply
MaxReplyLines == 3
\* most lines of prose after a statement and its explanation
MaxProseRun == 17
\* the probes of checkDatabaseHealth in flight at a time, and the intervals of
\* the health timer that are counted
MaxProbes == 2
MaxIntervals == 3

(***************************************************************************)
(* Tokens.                                                                 *)
(***************************************************************************)
NL == "\n"
SQ == "'"
DQ == "\""
LC == "--"
BO == "/*"
BC == "*/"

\* the tokens candidate statements are drawn from
BodyTokens == {"WITH", "DROP", "drop", "x", SQ, DQ, LC, BO, BC, NL, "(", ")"}

\* String.prototype.toUpperCase on one token
ToUpperCase(t) ==
  CASE t = "drop" -> "DROP"
    [] t = "select" -> "SELECT"
    [] t = "with" -> "WITH"
    [] t = "x" -> "X"
    [] OTHER -> t

UpperSeq(s) == [i \in 1..Len(s) |-> ToUpperCase(s[i])]

\* String.prototype.trim: the newline token is the only white-space token
RECURSIVE TrimLeft(_)
TrimLeft(s) == IF s # <<>> /\ Head(s) = NL THEN TrimLeft(Tail(s)) ELSE s

RECURSIVE TrimRight(_)
TrimRight(s) ==
  IF s # <<>> /\ s[Len(s)] = NL THEN TrimRight(SubSeq(s, 1, Len(s) - 1)) ELSE s

Trim(s) == TrimRight(TrimLeft(s))

\* index of the first occurrence of token t in s at or after position i, 0 if none
RECURSIVE IndexFrom(_, _, _)
IndexFrom(s, t, i) ==
  IF i > Len(s) THEN 0
  ELSE IF s[i] = t THEN i
  ELSE IndexFrom(s, t, i + 1)

\* .replace(/--.*$/gm, ''): each "--" and the rest of its line are removed
RECURSIVE StripLineComments(_)
StripLineComments(s) ==
  IF s = <<>> THEN <<>>
  ELSE IF Head(s) = LC
       THEN LET e == IndexFrom(s, NL, 1)
            IN  IF e = 0 THEN <<>> ELSE StripLineComments(SubSeq(s, e, Len(s)))
       ELSE <<Head(s)>> \o StripLineComments(Tail(s))

\* .replace(/open[^]*?close/g, ''): leftmost, shortest, non-overlapping matches;
\* an opening token that no closing token follows stays in the text
RECURSIVE StripDelimited(_, _, _)
StripDelimited(s, open, close) ==
  IF s = <<>> THEN <<>>
  ELSE IF Head(s) = open /\ IndexFrom(s, close, 2) # 0
       THEN StripDelimited(SubSeq(s, IndexFrom(s, close, 2) + 1, Len(s)), open, close)
       ELSE <<Head(s)>> \o StripDelimited(Tail(s), open, close)

\* withoutComments: the four replacements in the order the code applies them
WithoutComments(trimmedQuery) ==
  StripDelimited(
    StripDelimited(
      StripDelimited(StripLineComments(trimmedQuery), BO, BC),
      SQ, SQ),
    DQ, DQ)

CleanUpper(sqlQuery) == UpperSeq(Trim(WithoutComments(Trim(sqlQuery))))

\* dangerousPatterns: the words of the deny list
DangerousPatterns ==
  {"DROP", "DELETE", "UPDATE", "INSERT", "ALTER", "CREATE", "TRUNCATE",
   "EXEC", "EXECUTE", "GRANT", "REVOKE"}

\* pattern.test(cleanUpper) for some pattern of the deny list
HasDangerous(cleanUpper) ==
  \E i \in 1..Len(cleanUpper) : cleanUpper[i] \in DangerousPatterns

\* cleanUpper.startsWith('SELECT')
StartsWithSelect(cleanUpper) == cleanUpper # <<>> /\ cleanUpper[1] = "SELECT"

\* finalCheck.split('\n').pop()
RECURSIVE LastLine(_)
LastLine(s) ==
  IF IndexFrom(s, NL, 1) = 0 THEN s
  ELSE LastLine(SubSeq(s, IndexFrom(s, NL, 1) + 1, Len(s)))

\* /q[^q]*$/.test(s): some q of s is followed by no further q
UnclosedAtEnd(s, q) ==
  \E i \in 1..Len(s) : s[i] = q /\ \A j \in (i + 1)..Len(s) : s[j] # q

HasUnclosedString(finalCheck) ==
  UnclosedAtEnd(LastLine(finalCheck), SQ) \/ UnclosedAtEnd(LastLine(finalCheck), DQ)

\* /INTERVAL\s+'[^']*$/.test(finalCheck)
RECURSIVE SkipNL(_, _)
SkipNL(s, i) == IF i <= Len(s) /\ s[i] = NL THEN SkipNL(s, i + 1) ELSE i

HasUnclosedInterval(finalCheck) ==
  \E i \in 1..Len(finalCheck) :
    /\ finalCheck[i] = "INTERVAL"
    /\ LET q == SkipNL(finalCheck, i + 1)
       IN  /\ q <= Len(finalCheck)
           /\ finalCheck[q] = SQ
           /\ \A j \in (q + 1)..Len(finalCheck) : finalCheck[j] # SQ

\* /\b(LEF|RIGH|CURREN|INNE|OUTE)\s*$/i.test(last line)
IncompleteKeywords == {"LEF", "RIGH", "CURREN", "INNE", "OUTE"}

HasIncompleteKeyword(finalCheck) ==
  LET l == LastLine(finalCheck)
  IN  l # <<>> /\ ToUpperCase(l[Len(l)]) \in IncompleteKeywords

\* The validation part of executeSQLQuery: what the function does with sqlQuery
\* before it reaches queryWithRetry.
Validate(sqlQuery) ==
  IF sqlQuery = <<>> THEN "null"
  ELSE IF HasDangerous(CleanUpper(sqlQuery)) THEN "unsafe"
  ELSE IF ~StartsWithSelect(CleanUpper(sqlQuery)) THEN "not_select"
  ELSE IF \/ HasUnclosedString(Trim(sqlQuery))
          \/ HasUnclosedInterval(Trim(sqlQuery))
          \/ HasIncompleteKeyword(Trim(sqlQuery))
       THEN "incomplete"
  ELSE "accepted"


(***************************************************************************)
(* State.                                                                  *)
(***************************************************************************)
VARIABLES
  sqlQuery,    \* executeSQLQuery: its argument
  vpc,         \* executeSQLQuery: "call" before the call, "done" after it returned
  result,      \* executeSQLQuery: the value it returned
  handed,      \* the statements passed to queryWithRetry so far
  maxRetries,  \* executeWithRetry: its argument
  retryDelay,  \* executeWithRetry: its argument
  attempt,     \* executeWithRetry: the loop variable
  rpc,         \* executeWithRetry: "loop", "try", "sleep", "returned", "thrown"
  calls,       \* executeWithRetry: invocations of queryFn so far
  errs,        \* executeWithRetry: the errors queryFn threw, in order
  waits,       \* executeWithRetry: the delays passed to setTimeout, in order
  jitters,     \* executeWithRetry: the values of Math.random() * 200, in order
  outcome,     \* executeWithRetry: what the caller got (a result or an error)
  file,        \* the cache artifact database-schema.json: "absent", "partial" or a snapshot
  clock,       \* the wall clock, in hours
  catalog,     \* the database catalog (its tables and columns): "v1", then "v2"
  inflight,    \* bag of the getSchema calls and background refreshes in flight
  lastReturn,  \* what the getSchema call that returned in the last step handed to
               \* its caller; [mode |-> "none"] when the last step was no return
  question,    \* chat route: the message of the request
  orderTable,  \* chat route: whether the snapshot holds an order table with the
               \* columns the smart templates look for
  cpc,         \* chat route: the await the handler is at
  sqlGenerationAttempts,  \* chat route: calls of generateSQLFromQuestion so far
  routeSql,    \* chat route: its local sqlQuery (<<>> is null)
  sqlQueryResult,         \* chat route: "null", "success" or "error"
  smartQueryPromise,      \* chat route: the promise of executeSmartQuery
  executed,    \* the statements passed to queryWithRetry for the question, in order
  inspected,   \* the statements executeSQLQuery accepted for the question
  enhancedMessage,        \* chat route: "original" (the message, possibly with
               \* the follow-up context) or "strengthened" (the IMPORTANT: text)
  generations, \* the calls of generateSQLFromQuestion for the question, in order
  schemaCopy,  \* getCompleteSchema: which of the two copies of schemaCache.js runs
  tableCount,  \* the number of base tables the catalog lists
  failing,     \* for the first tables, the sub-query of the table that errors
  liveRows,    \* the row count the statistics report for a table
  ipc,         \* the introspection run: "first", "second", "done"
  snap1,       \* what the first getCompleteSchema call returned
  snap2,       \* what the second getCompleteSchema call returned
  tSchema,     \* smart templates: the snapshot getSchema(true) resolves to
  tPattern,    \* smart templates: the pattern asked for, "none" before
  tSql,        \* smart templates: what the generate...SQL function returned
  processState,  \* the Node process: "running" or "exited"
  poolErrors,  \* pool events: the codes of the 'error' events handled, in order
  llmReply,    \* extraction: the lines of the oracle's reply, each the sequence of its words
  xpc,         \* extraction: "idle", "replied" or "extracted"
  extraction,  \* what the extraction of generateSQLFromQuestion produced
  dbUp,        \* health: whether the database server answers
  isDatabaseHealthy,      \* health: the flag of database.js
  connecting,  \* health: probes awaiting pool.connect()
  querying,    \* health: probes that hold a client and await SELECT 1
  leaked,      \* health: clients checked out of the pool and never released
  intervals    \* health: how often HEALTH_CHECK_INTERVAL has elapsed, counted
               \* modulo MaxIntervals + 1

validatorVars == <<sqlQuery, vpc, result, handed>>
retryVars == <<maxRetries, retryDelay, attempt, rpc, calls, errs, waits, jitters, outcome>>

cacheVars == <<file, clock, catalog, inflight, lastReturn>>

chatVars == <<question, orderTable, cpc, sqlGenerationAttempts, routeSql,
              sqlQueryResult, smartQueryPromise, executed, inspected,
              enhancedMessage, generations>>

introVars == <<schemaCopy, tableCount, failing, liveRows, ipc, snap1, snap2>>

templateVars == <<tSchema, tPattern, tSql>>

poolVars == <<processState, poolErrors>>

extractVars == <<llmReply, xpc, extraction>>

healthVars == <<dbUp, isDatabaseHealthy, connecting, querying, leaked, intervals>>
vars == <<validatorVars, retryVars, cacheVars, chatVars, introVars, templateVars,
         poolVars, extractVars, healthVars>>

exceptValidator == <<retryVars, cacheVars, chatVars, introVars, templateVars, poolVars, extractVars, healthVars>>
exceptRetry == <<validatorVars, cacheVars, chatVars, introVars, templateVars, poolVars, extractVars, healthVars>>
exceptCache == <<validatorVars, retryVars, chatVars, introVars, templateVars, poolVars, extractVars, healthVars>>
exceptChat == <<validatorVars, retryVars, cacheVars, introVars, templateVars, poolVars, extractVars, healthVars>>
exceptTemplate == <<validatorVars, retryVars, cacheVars, chatVars, introVars, poolVars, extractVars, healthVars>>
exceptIntro == <<validatorVars, retryVars, cacheVars, chatVars, templateVars, poolVars, extractVars, healthVars>>
exceptPool == <<validatorVars, retryVars, cacheVars, chatVars, introVars, templateVars, extractVars, healthVars>>
exceptExtract == <<validatorVars, retryVars, cacheVars, chatVars, introVars, templateVars, poolVars, healthVars>>
exceptHealth == <<validatorVars, retryVars, cacheVars, chatVars, introVars, templateVars, poolVars, extractVars>>

IdleValidator ==
  /\ sqlQuery = <<>>
  /\ vpc = "idle"
  /\ result = "none"
  /\ handed = {}

IdleCache ==
  /\ file = [kind |-> "absent"]
  /\ clock = 0
  /\ catalog = "v1"
  /\ inflight = <<>>
  /\ lastReturn = [mode |-> "none"]

IdleRetry ==
  /\ maxRetries = 0
  /\ retryDelay = 0
  /\ attempt = 0
  /\ rpc = "idle"
  /\ calls = 0
  /\ errs = <<>>
  /\ waits = <<>>
  /\ jitters = <<>>
  /\ outcome = [kind |-> "none"]

IdleChat ==
  /\ question = [head |-> "", has |-> {}]
  /\ orderTable = FALSE
  /\ cpc = "idle"
  /\ sqlGenerationAttempts = 0
  /\ routeSql = <<>>
  /\ sqlQueryResult = "null"
  /\ smartQueryPromise = "null"
  /\ executed = <<>>
  /\ inspected = {}
  /\ enhancedMessage = "original"
  /\ generations = <<>>

IdleIntro ==
  /\ schemaCopy = 0
  /\ tableCount = 0
  /\ failing = <<>>
  /\ liveRows = 0
  /\ ipc = "idle"
  /\ snap1 = [kind |-> "none"]
  /\ snap2 = [kind |-> "none"]

IdleHealth ==
  /\ dbUp = TRUE
  /\ isDatabaseHealthy = FALSE
  /\ connecting = 0
  /\ querying = 0
  /\ leaked = 0
  /\ intervals = 0

IdlePool ==
  /\ processState = "running"
  /\ poolErrors = <<>>

IdleExtract ==
  /\ llmReply = <<>>
  /\ xpc = "idle"
  /\ extraction = [kind |-> "none"]

IdleTemplate ==
  /\ tSchema = [kind |-> "null"]
  /\ tPattern = "none"
  /\ tSql = [kind |-> "none"]

(***************************************************************************)
(* executeSQLQuery on one candidate statement.                             *)
(***************************************************************************)
\* the candidate statements: an optional leading SELECT, up to MaxBody
\* arbitrary tokens, an optional further line
Heads == {<<>>, <<"SELECT">>}
Tails == {<<>>, <<NL, "x">>}
Bodies == UNION {[1..n -> BodyTokens] : n \in 0..MaxBody}
Candidates == {h \o b \o t : h \in Heads, b \in Bodies, t \in Tails}

\* what the awaited queryWithRetry(sqlQuery) does: it resolves with rows, or it
\* throws a PostgreSQL error, or it throws a connection error after its retries
QueryOutcomes == {"success", "db_error", "conn_error"}

InitValidator ==
  /\ sqlQuery \in Candidates
  /\ vpc = "call"
  /\ result = "none"
  /\ handed = {}
  /\ IdleRetry
  /\ IdleCache
  /\ IdleChat
  /\ IdleIntro
  /\ IdleTemplate
  /\ IdleExtract
  /\ IdlePool
  /\ IdleHealth

ExecuteSQLQuery ==
  /\ vpc = "call"
  /\ vpc' = "done"
  /\ IF Validate(sqlQuery) = "accepted"
     THEN /\ handed' = handed \cup {sqlQuery}
          /\ result' \in QueryOutcomes
     ELSE /\ handed' = handed
          /\ result' = Validate(sqlQuery)
  /\ UNCHANGED <<sqlQuery, exceptValidator>>

NextValidator == ExecuteSQLQuery

SpecValidator == InitValidator /\ [][NextValidator]_vars


(***************************************************************************)
(* The lexical structure of a statement as SQL defines it, which the       *)
(* properties of the validator are stated against: a quoted literal runs   *)
(* from its quote to the next quote of the same kind, a -- comment to the  *)
(* end of its line, a block comment to the next closing marker; markers    *)
(* inside a literal or a comment are inert.                                *)
(***************************************************************************)
LexStep(mode, t) ==
  CASE mode = "code" ->
         (CASE t = SQ -> "sq" [] t = DQ -> "dq" [] t = LC -> "lc"
            [] t = BO -> "bc" [] OTHER -> "code")
    [] mode = "sq" -> IF t = SQ THEN "code" ELSE "sq"
    [] mode = "dq" -> IF t = DQ THEN "code" ELSE "dq"
    [] mode = "lc" -> IF t = NL THEN "code" ELSE "lc"
    [] OTHER -> IF t = BC THEN "code" ELSE "bc"

\* the mode the lexer is in after reading the first i tokens of s
RECURSIVE ModeAfter(_, _)
ModeAfter(s, i) == IF i = 0 THEN "code" ELSE LexStep(ModeAfter(s, i - 1), s[i])

\* token i of s is code: it is outside every literal and every comment, and is
\* no quote or comment marker itself
IsCodeToken(s, i) ==
  /\ ModeAfter(s, i - 1) = "code"
  /\ s[i] \notin {SQ, DQ, LC, BO, NL}

IsDangerousWord(t) == ToUpperCase(t) \in DangerousPatterns

DangerousInCode(s) ==
  \E i \in 1..Len(s) : IsCodeToken(s, i) /\ IsDangerousWord(s[i])

DangerousAnywhere(s) == \E i \in 1..Len(s) : IsDangerousWord(s[i])

\* the code tokens of s, in order
CodeIndices(s) == {i \in 1..Len(s) : IsCodeToken(s, i)}

FirstCodeToken(s) ==
  IF CodeIndices(s) = {} THEN "none"
  ELSE ToUpperCase(s[CHOOSE i \in CodeIndices(s) : \A j \in CodeIndices(s) : i <= j])

Count(s, t) == Cardinality({i \in 1..Len(s) : s[i] = t})

CountsBalanced(s) ==
  /\ Count(s, "(") = Count(s, ")")
  /\ Count(s, SQ) % 2 = 0
  /\ Count(s, DQ) % 2 = 0

\* every literal and block comment of s is closed, no closing marker is stray,
\* and the parentheses in code nest properly
RECURSIVE Depth(_, _)
Depth(s, i) ==
  IF i = 0 THEN 0
  ELSE Depth(s, i - 1)
       + (IF IsCodeToken(s, i) /\ s[i] = "(" THEN 1
          ELSE IF IsCodeToken(s, i) /\ s[i] = ")" THEN -1 ELSE 0)

WellFormed(s) ==
  /\ ModeAfter(s, Len(s)) \in {"code", "lc"}
  /\ \A i \in 1..Len(s) : IsCodeToken(s, i) => s[i] # BC
  /\ \A i \in 1..Len(s) : Depth(s, i) >= 0
  /\ Depth(s, Len(s)) = 0

Returned == vpc = "done"
Accepted == Returned /\ sqlQuery \in handed

\* C2: a statement with a deny-listed word in code (outside every literal and
\* comment, in any letter case) is rejected: executeSQLQuery never passes it to
\* queryWithRetry, also when comment markers stand inside literals or quote
\* characters inside comments. (The claim further says the rejection is the
\* unsafe one; this is the part of it that is about execution.)
C2_DangerousInCodeNeverExecuted ==
  (Returned /\ DangerousInCode(sqlQuery)) => ~Accepted

\* C3: a well-formed SELECT statement whose deny-listed words all lie inside
\* literals or comments is accepted and executed.
C3_InertKeywordAccepted ==
  (/\ Returned
   /\ WellFormed(sqlQuery)
   /\ FirstCodeToken(sqlQuery) = "SELECT"
   /\ DangerousAnywhere(sqlQuery)
   /\ ~DangerousInCode(sqlQuery)) => Accepted

\* C4: no statement with unequal counts of "(" and ")", or an odd count of
\* single or of double quotes, is passed to queryWithRetry.
C4_UnbalancedNeverAccepted ==
  (Returned /\ ~CountsBalanced(sqlQuery)) => ~Accepted

\* C5: a balanced statement without deny-listed words is accepted exactly when
\* its text outside literals and comments starts with SELECT or with WITH.
C5_AcceptedIffSelectOrWith ==
  (/\ Returned
   /\ WellFormed(sqlQuery)
   /\ CountsBalanced(sqlQuery)
   /\ ~DangerousAnywhere(sqlQuery))
  => (Accepted <=> FirstCodeToken(sqlQuery) \in {"SELECT", "WITH"})


(***************************************************************************)
(* executeWithRetry(queryFn, maxRetries, retryDelay).                      *)
(***************************************************************************)
\* the errors queryFn can throw: node network errors, errors of the pg client
\* and PostgreSQL errors
Errors ==
  { [code |-> "ETIMEDOUT", message |-> "connect ETIMEDOUT"],
    [code |-> "ECONNRESET", message |-> "read ECONNRESET"],
    [code |-> "ENOTFOUND", message |-> "getaddrinfo ENOTFOUND"],
    [code |-> "undefined", message |-> "Connection terminated unexpectedly"],
    [code |-> "undefined", message |-> "Query read timeout"],
    [code |-> "42601", message |-> "syntax error at or near"],
    [code |-> "42703", message |-> "column \"timeout\" does not exist"],
    [code |-> "42P01", message |-> "relation does not exist"] }

\* String.prototype.includes on the messages above
Includes(message, phrase) ==
  \/ message = phrase
  \/ <<message, phrase>> \in
       { <<"Connection terminated unexpectedly", "Connection terminated">>,
         <<"Query read timeout", "timeout">>,
         <<"column \"timeout\" does not exist", "timeout">>,
         <<"column \"timeout\" does not exist", "does not exist">>,
         <<"syntax error at or near", "syntax error">>,
         <<"relation does not exist", "does not exist">> }

IsRetryable(error) ==
  \/ error.code = "ETIMEDOUT"
  \/ error.code = "EHOSTUNREACH"
  \/ error.code = "ECONNREFUSED"
  \/ error.code = "ECONNRESET"
  \/ error.code = "ENOTFOUND"
  \/ Includes(error.message, "Connection terminated")
  \/ Includes(error.message, "Connection closed")
  \/ Includes(error.message, "timeout")

Min(a, b) == IF a <= b THEN a ELSE b

MaxDelayMs == 10000
JitterRange == 200

BackoffDelay_NoCap(delay, k, jitter) == delay * 2 ^ (k - 1) + jitter

\* const delay = Math.min(retryDelay * Math.pow(2, attempt - 1) + jitter, 10000)
BackoffDelay(delay, k, jitter) == Min(delay * 2 ^ (k - 1) + jitter, MaxDelayMs)

NextAttempt_Stuck(k) == k

\* attempt++
NextAttempt(k) == k + 1

\* Math.random() * 200, a real of [0, 200): its least, a middle and its
\* greatest whole values
Jitters == {0, 100, JitterRange - 1}

RetryDelays == {1000, 4000, 10000}

InitRetry ==
  /\ maxRetries \in 0..MaxRetriesBound
  /\ retryDelay \in RetryDelays
  /\ attempt = 1
  /\ rpc = "loop"
  /\ calls = 0
  /\ errs = <<>>
  /\ waits = <<>>
  /\ jitters = <<>>
  /\ outcome = [kind |-> "none"]
  /\ IdleValidator
  /\ IdleCache
  /\ IdleChat
  /\ IdleIntro
  /\ IdleTemplate
  /\ IdleExtract
  /\ IdlePool
  /\ IdleHealth

\* for (...; attempt <= maxRetries; ...): enter the body, or leave the loop and
\* throw lastError
LoopTest ==
  /\ rpc = "loop"
  /\ IF attempt <= maxRetries
     THEN rpc' = "try" /\ outcome' = outcome
     ELSE /\ rpc' = "thrown"
          /\ outcome' = IF errs = <<>> THEN [kind |-> "undefined"] ELSE errs[Len(errs)]
  /\ UNCHANGED <<maxRetries, retryDelay, attempt, calls, errs, waits, jitters>>
  /\ UNCHANGED exceptRetry

\* await queryFn() resolves: return result
QueryFnResolves ==
  /\ rpc = "try"
  /\ calls < MaxRetriesBound + 2
  /\ calls' = calls + 1
  /\ rpc' = "returned"
  /\ outcome' = [resultOfCall |-> calls + 1]
  /\ UNCHANGED <<maxRetries, retryDelay, attempt, errs, waits, jitters>>
  /\ UNCHANGED exceptRetry

\* await queryFn() rejects: the catch block
QueryFnRejects(error) ==
  /\ rpc = "try"
  /\ calls < MaxRetriesBound + 2
  /\ calls' = calls + 1
  /\ errs' = Append(errs, error)
  /\ IF ~IsRetryable(error) \/ attempt = maxRetries
     THEN /\ rpc' = "thrown"
          /\ outcome' = error
          /\ UNCHANGED <<waits, jitters>>
     ELSE /\ rpc' = "sleep"
          /\ outcome' = outcome
          /\ \E jitter \in Jitters :
               /\ jitters' = Append(jitters, jitter)
               /\ waits' = Append(waits, BackoffDelay(retryDelay, attempt, jitter))
  /\ UNCHANGED <<maxRetries, retryDelay, attempt>>
  /\ UNCHANGED exceptRetry

\* the timer of the await new Promise(... setTimeout(resolve, delay)) fires
TimerFires ==
  /\ rpc = "sleep"
  /\ rpc' = "loop"
  /\ attempt' = NextAttempt(attempt)
  /\ UNCHANGED <<maxRetries, retryDelay, calls, errs, waits, jitters, outcome>>
  /\ UNCHANGED exceptRetry

NextRetry ==
  \/ LoopTest
  \/ QueryFnResolves
  \/ \E error \in Errors : QueryFnRejects(error)
  \/ TimerFires

SpecRetry == InitRetry /\ [][NextRetry]_vars


(***************************************************************************)
(* Properties of executeWithRetry.                                         *)
(***************************************************************************)
\* the errors the retry contract names transient: network error codes, a
\* terminated or closed connection, a timeout
\* the transient network conditions: the connection could not be made, was
\* reset or closed, or the server did not answer in time
TransientCodes == {"ETIMEDOUT", "EHOSTUNREACH", "ECONNREFUSED", "ECONNRESET", "ENOTFOUND"}
TransientMessages ==
  {"Connection terminated unexpectedly", "Connection closed", "Query read timeout"}
Transient(e) == e.code \in TransientCodes \/ e.message \in TransientMessages

RetryFinished == rpc \in {"returned", "thrown"}

\* C6: only transient network conditions are retried: any other error is
\* thrown to the caller by the very invocation that raised it, no wait follows
\* it and queryFn is not invoked again; raised by the first invocation,
\* queryFn was invoked exactly once.
C6_NonTransientPropagatesAtOnce ==
  \A i \in 1..Len(errs) :
    ~Transient(errs[i]) =>
      /\ i = Len(errs)
      /\ rpc = "thrown"
      /\ outcome = errs[i]
      /\ calls = i
      /\ Len(waits) = i - 1

\* C7: with maxRetries >= 1 queryFn is invoked at most maxRetries times; a
\* success of invocation k returns its result after exactly k invocations; a
\* transient error reaches the caller only as the error of invocation
\* maxRetries; and the call always goes on until it returns or throws.
C7_BoundedRetries ==
  maxRetries >= 1 =>
    /\ calls <= maxRetries
    /\ attempt <= maxRetries
    /\ rpc = "returned" =>
         /\ outcome = [resultOfCall |-> calls]
         /\ Len(errs) = calls - 1
    /\ (rpc = "thrown" /\ Transient(outcome)) =>
         /\ calls = maxRetries
         /\ Len(errs) = maxRetries
         /\ outcome = errs[maxRetries]
    /\ RetryFinished \/ ENABLED NextRetry

C7_Witness ==
  /\ maxRetries = MaxRetriesBound
  /\ rpc = "thrown"
  /\ calls = maxRetries
  /\ \A i \in 1..Len(errs) : Transient(errs[i])
  /\ outcome = errs[maxRetries]

\* C8: the wait after failed attempt k is min(retryDelay * 2^(k-1) + jitter,
\* 10000) with 0 <= jitter < 200, so at most 10000; it follows only a
\* retryable error of an attempt k < maxRetries, never the error that is thrown.
C8_CappedBackoff ==
  /\ Len(waits) = Len(jitters)
  /\ Len(waits) = (IF rpc = "thrown" /\ errs # <<>> THEN Len(errs) - 1 ELSE Len(errs))
  /\ \A k \in 1..Len(waits) :
       /\ k < maxRetries
       /\ IsRetryable(errs[k])
       /\ jitters[k] >= 0 /\ jitters[k] < 200
       /\ waits[k] <= 10000
       /\ waits[k] = (IF retryDelay * 2 ^ (k - 1) + jitters[k] < 10000
                      THEN retryDelay * 2 ^ (k - 1) + jitters[k]
                      ELSE 10000)

\* a wait that the cap shortened
C8_Witness ==
  /\ rpc = "sleep"
  /\ waits # <<>>
  /\ waits[Len(waits)] = 10000
  /\ retryDelay * 2 ^ (Len(waits) - 1) + jitters[Len(waits)] > 10000


(***************************************************************************)
(* The schema snapshot cache: getSchema, refreshSchema, cacheSchema,       *)
(* loadCachedSchema over the cache artifact.                               *)
(***************************************************************************)
\* getCompleteSchema's value on success: the tables of the catalog as it is,
\* stamped new Date().toISOString()
Snapshot(version, now) == [kind |-> "snapshot", tables |-> version, cachedAt |-> now]

\* the artifact does not exist; the artifact is truncated or partly written
Absent == [kind |-> "absent"]
Partial == [kind |-> "partial"]
\* the JavaScript null
Null == [kind |-> "null"]

IsSnapshot(x) == x.kind = "snapshot"

DefaultMaxAgeHours == 1

\* the cachedAt of an artifact that has no such field (or a falsy one), and of
\* one whose cachedAt is a text new Date() does not parse; the clock never has
\* these values
NoCachedAt == -1
InvalidDate == -2

\* isCacheStale(schema, maxAgeHours) at wall-clock time now. new Date() of an
\* unparsable text is an Invalid Date and does not throw; the age is then NaN
\* and NaN > maxAgeHours is false.
IsCacheStale(schema, maxAgeHours, now) ==
  IF ~IsSnapshot(schema) THEN TRUE
  ELSE IF schema.cachedAt = NoCachedAt THEN TRUE
  ELSE IF schema.cachedAt = InvalidDate THEN FALSE
  ELSE now - schema.cachedAt > maxAgeHours

\* loadCachedSchema: null when the artifact does not exist or its text does not
\* parse, else JSON.parse of the text
LoadCachedSchema(content) == IF IsSnapshot(content) THEN content ELSE Null

\* an activity in flight: the getSchema call of a caller, which fetches a fresh
\* schema because it was told to or found no artifact (mode "fetch") or because
\* the artifact did not parse ("unparsable"), or a detached refreshSchema
\* ("background"); with its position, its locals fresh and schema, and the
\* number of getCompleteSchema calls it has awaited
Activity(mode) ==
  [mode |-> mode, pc |-> "gcs", fresh |-> Null, schema |-> Null, awaited |-> 0]

Started(act) == SetToBag({act})

Room == BagCardinality(inflight) < MaxInFlight

Returns(mode, ret, awaited, started) ==
  [mode |-> mode, ret |-> ret, awaited |-> awaited, started |-> started]

NoReturn == lastReturn' = [mode |-> "none"]

\* the local fresh of an activity; the value of a background refreshSchema is
\* dropped, all that is read of it is whether it is null
Fresh(act, snapshot) ==
  IF act.mode = "background" THEN [kind |-> "snapshot"] ELSE snapshot

AfterStaleRead_AwaitRefresh(cached) == "await"

\* getSchema on a stale snapshot: refreshSchema() is called but not awaited,
\* and cached is returned
AfterStaleRead(cached) == "return"

InitCache ==
  /\ file \in {Absent, Snapshot("v1", 0)}
  /\ clock = 0
  /\ catalog = "v1"
  /\ inflight = EmptyBag
  /\ lastReturn = [mode |-> "none"]
  /\ IdleValidator
  /\ IdleRetry
  /\ IdleChat
  /\ IdleIntro
  /\ IdleTemplate
  /\ IdleExtract
  /\ IdlePool
  /\ IdleHealth

\* getSchema(useCache, forceRefresh) is called and runs to its return or to its
\* first await of getCompleteSchema
GetSchemaCall(useCache, forceRefresh) ==
  LET cached == LoadCachedSchema(file) IN
  /\ Room
  /\ IF forceRefresh
     THEN inflight' = inflight (+) Started(Activity("fetch")) /\ NoReturn
     ELSE IF ~useCache
     THEN inflight' = inflight (+) Started(Activity("fetch")) /\ NoReturn
     ELSE IF cached = Null
     THEN /\ inflight' = inflight (+)
               Started(Activity(IF file = Absent THEN "fetch" ELSE "unparsable"))
          /\ NoReturn
     ELSE IF ~IsCacheStale(cached, DefaultMaxAgeHours, clock)
     THEN /\ lastReturn' = Returns("fresh", cached, 0, FALSE)
          /\ UNCHANGED inflight
     ELSE IF AfterStaleRead(cached) = "return"
     THEN /\ inflight' = inflight (+) Started(Activity("background"))
          /\ lastReturn' = Returns("stale", cached, 0, TRUE)
     ELSE /\ inflight' = inflight (+) Started(Activity("stale"))
          /\ NoReturn
  /\ UNCHANGED <<file, clock, catalog, exceptCache>>

\* an activity moves on (or ends, when next is no activity)
Moved(act, next) == (inflight (-) SetToBag({act})) (+) next

\* a getCompleteSchema call the caller of getSchema waited for
AwaitedOne(act) ==
  IF act.mode = "background" THEN act ELSE [act EXCEPT !.awaited = @ + 1]

\* refreshSchema / getSchema return fresh, the first snapshot; nobody receives
\* the value of a background refreshSchema
Finish(act, final) ==
  /\ inflight' = Moved(act, EmptyBag)
  /\ lastReturn' = IF final.mode = "background" THEN [mode |-> "none"]
                   ELSE Returns(final.mode, final.fresh, final.awaited, FALSE)

\* `const fresh = await getCompleteSchema()` of refreshSchema or getSchema
\* resolves: a snapshot, or null when the catalog query failed
GetCompleteSchemaDone(act, ok) ==
  /\ BagIn(act, inflight)
  /\ act.pc = "gcs"
  /\ IF ok
     THEN /\ inflight' = Moved(act, Started(
               [AwaitedOne(act) EXCEPT !.pc = "cs_gcs",
                                       !.fresh = Fresh(act, Snapshot(catalog, clock))]))
          /\ NoReturn
     ELSE Finish(act, AwaitedOne(act))
  /\ UNCHANGED <<file, clock, catalog, exceptCache>>

\* cacheSchema: `const schema = await getCompleteSchema()` resolves and
\* writeFile opens the artifact for writing, which truncates it; when the
\* schema is null cacheSchema returns false; when the open fails it catches the
\* error and returns false
CacheSchemaOpens(act, got) ==
  /\ BagIn(act, inflight)
  /\ act.pc = "cs_gcs"
  /\ IF got = "opened"
     THEN /\ file' = Partial
          /\ inflight' = Moved(act, Started(
               [AwaitedOne(act) EXCEPT !.pc = "cs_write",
                                       !.schema = Snapshot(catalog, clock)]))
          /\ NoReturn
     ELSE /\ file' = file
          /\ Finish(act, AwaitedOne(act))
  /\ UNCHANGED <<clock, catalog, exceptCache>>

\* cacheSchema: writeFile resolves with the whole text written, or rejects with
\* the artifact left as it is
WriteFileDone(act, ok) ==
  /\ BagIn(act, inflight)
  /\ act.pc = "cs_write"
  /\ file' = IF ok THEN act.schema ELSE file
  /\ Finish(act, act)
  /\ UNCHANGED <<clock, catalog, exceptCache>>

\* an hour passes
Tick ==
  /\ clock < MaxClock
  /\ clock' = clock + 1
  /\ NoReturn
  /\ UNCHANGED <<file, catalog, inflight, exceptCache>>

\* a table or column of the database is added or dropped
SchemaChange ==
  /\ catalog = "v1"
  /\ catalog' = "v2"
  /\ NoReturn
  /\ UNCHANGED <<file, clock, inflight, exceptCache>>

InFlight == BagToSet(inflight)

NextCache ==
  \/ \E useCache \in BOOLEAN, forceRefresh \in BOOLEAN :
       GetSchemaCall(useCache, forceRefresh)
  \/ \E act \in InFlight, ok \in BOOLEAN : GetCompleteSchemaDone(act, ok)
  \/ \E act \in InFlight, got \in {"null", "open_failed", "opened"} :
       CacheSchemaOpens(act, got)
  \/ \E act \in InFlight, ok \in BOOLEAN : WriteFileDone(act, ok)
  \/ Tick
  \/ SchemaChange

SpecCache == InitCache /\ [][NextCache]_vars

\* the cache started on an artifact that the program did not write itself:
\* one without cachedAt, or with a cachedAt that is not a date
InitStale ==
  /\ file \in {Snapshot("v1", 0), Snapshot("v1", NoCachedAt), Snapshot("v1", InvalidDate)}
  /\ clock = 0
  /\ catalog = "v1"
  /\ inflight = EmptyBag
  /\ lastReturn = [mode |-> "none"]
  /\ IdleValidator
  /\ IdleRetry
  /\ IdleChat
  /\ IdleIntro
  /\ IdleTemplate
  /\ IdleExtract
  /\ IdlePool
  /\ IdleHealth

SpecStale == InitStale /\ [][NextCache]_vars


(***************************************************************************)
(* Properties of the schema snapshot cache.                                *)
(***************************************************************************)
BackgroundRefreshes == {act \in InFlight : act.mode = "background"}

\* C9: a getSchema call that finds a stale snapshot returns that snapshot
\* having awaited no getCompleteSchema call, and the refresh it started is in
\* flight, not yet past its first introspection, when the caller has the value.
C9_StaleReturnedWithoutWaiting ==
  lastReturn.mode = "stale" =>
    /\ lastReturn.ret = LoadCachedSchema(file)
    /\ IsSnapshot(lastReturn.ret)
    /\ clock - lastReturn.ret.cachedAt > DefaultMaxAgeHours
    /\ lastReturn.awaited = 0
    /\ lastReturn.started
    /\ \E act \in BackgroundRefreshes : act.pc = "gcs"

\* a stale snapshot returned while an earlier refresh is still in flight
C9_Witness ==
  /\ lastReturn.mode = "stale"
  /\ IsSnapshot(lastReturn.ret)
  /\ clock - lastReturn.ret.cachedAt > DefaultMaxAgeHours
  /\ BagCardinality(inflight) = 2

\* a getSchema call finds the artifact unparsable in this step
StartsUnparsable ==
  CopiesIn(Activity("unparsable"), inflight') > CopiesIn(Activity("unparsable"), inflight)

\* C10: while a background refresh is in progress no getSchema call misses the
\* cache: the artifact a reader loads is a complete snapshot, the previous or
\* the new one.
C10_ReadersNeverMiss ==
  [][(BackgroundRefreshes # {}) => ~StartsUnparsable]_vars

(***************************************************************************)
(* The chat route: from the question to the statements it executes.        *)
(***************************************************************************)
\* A question is the first words of the trimmed message (what the anchored
\* regular expression of mustHaveSQL looks at) and the set of the phrases the
\* handlers probe with String.prototype.includes that the message contains.
Questions ==
  { [head |-> "show", has |-> {"grouped by month", "orders", "month"}],
    [head |-> "orders", has |-> {"orders", "month"}],
    [head |-> "orders", has |-> {"grouped by month", "orders", "month"}],
    [head |-> "growth", has |-> {"growth rate", "growth", "orders", "month"}],
    [head |-> "breakdown", has |-> {"breakdown", "status", "this month", "month"}],
    [head |-> "total", has |-> {"total revenue", "customer"}],
    [head |-> "items", has |-> {"items", "quantity"}],
    [head |-> "list", has |-> {"list delivery orders", "details", "orders"}],
    [head |-> "show", has |-> {"orders", "day"}],
    [head |-> "hello", has |-> {}] }

\* mustHaveSQL: the alternatives of the anchored regular expression
MustHaveSQL(q) ==
  q.head \in {"list", "show", "display", "give me", "tell me", "which", "what",
              "how many", "how much", "best", "top", "most", "highest", "lowest",
              "grouped", "group", "breakdown", "total", "revenue", "growth", "rate"}

MaxAttempts_Three(q) == IF MustHaveSQL(q) THEN 3 ELSE 1

\* line 218: maxAttempts
MaxAttempts(q) == IF MustHaveSQL(q) THEN 2 ELSE 1

\* smartQueryPattern: the if / else-if chain over questionLower
SmartQueryPattern(q) ==
  IF \/ "grouped by month" \in q.has
     \/ "group by month" \in q.has
     \/ ("orders" \in q.has /\ "month" \in q.has /\ "growth" \notin q.has)
  THEN "orders_grouped_by_month"
  ELSE IF /\ "breakdown" \in q.has
          /\ "status" \in q.has
          /\ ("current month" \in q.has \/ "this month" \in q.has)
  THEN "orders_by_status"
  ELSE IF \/ "revenue per customer" \in q.has
          \/ "revenue per account" \in q.has
          \/ ("total revenue" \in q.has /\ "customer" \in q.has)
  THEN "revenue_per_customer"
  ELSE IF \/ "month-over-month" \in q.has
          \/ "month over month" \in q.has
          \/ "growth rate" \in q.has
  THEN "month_over_month_growth"
  ELSE IF \/ "quantity greater than" \in q.has
          \/ ("items" \in q.has /\ "quantity" \in q.has)
  THEN "orders_with_high_quantity"
  ELSE "null"

\* The statement templates, token by token; column lists and repeated clauses
\* are shortened, the first token, the quotes, the parentheses and the lines
\* are those of the templates.
FallbackMonthSQL ==
  <<"SELECT", "EXTRACT", "(", "YEAR", "FROM", "COALESCE", "(", "createdat",
    "created_at", ")", ")", "FROM", "delivery_orders", "ORDER", "BY", "year">>

FallbackDaySQL ==
  <<"SELECT", "DATE", "(", "COALESCE", "(", "createdat", "created_at", ")", ")",
    "FROM", "deliveryorders", "ORDER", "BY", "day", "DESC">>

FallbackListSQL ==
  <<"SELECT", "do.*", "FROM", "deliveryorders", "do", "JOIN",
    "deliveryorderdetails", "dod", "ON", "do.id", "=", "dod.deliveryorderid",
    "LIMIT", "20">>

SimplerMonthSQL ==
  <<"SELECT", "EXTRACT", "(", "YEAR", "FROM", "created_at", ")", "FROM",
    "delivery_orders", "ORDER", "BY", "year">>

SmartGroupedByMonthSQL ==
  <<"SELECT", "EXTRACT", "(", "YEAR", "FROM", DQ, "created_at", DQ, ")",
    "FROM", DQ, "delivery_orders", DQ, "ORDER", "BY", "year">>

SmartOrdersByStatusSQL ==
  <<"SELECT", DQ, "status", DQ, "as", "status", "FROM", DQ, "delivery_orders",
    DQ, "GROUP", "BY", DQ, "status", DQ, "ORDER", "BY", "ordercount", "DESC">>

SmartRevenuePerCustomerSQL ==
  <<"SELECT", DQ, "accountid", DQ, "as", "accountid", "FROM", DQ,
    "delivery_orders", DQ, "GROUP", "BY", DQ, "accountid", DQ, "ORDER", "BY",
    "totalrevenue", "DESC">>

SmartMonthOverMonthGrowthSQL ==
  <<"WITH", "monthly_orders", "AS", "(", NL,
    "SELECT", "ordercount", NL,
    "FROM", DQ, "delivery_orders", DQ, NL,
    "WHERE", DQ, "created_at", DQ, ">=", "CURRENT_DATE", "-", "INTERVAL", SQ,
    "6", "months", SQ, NL,
    ")", NL,
    "SELECT", "growth_rate_percent", NL,
    "FROM", "monthly_orders", NL,
    "ORDER", "BY", "year">>

SmartHighQuantitySQL ==
  <<"SELECT", "DISTINCT", NL,
    "o.*", NL,
    "FROM", DQ, "delivery_orders", DQ, "o", NL,
    "ORDER", "BY", "totalordervalue", "DESC">>

\* generateFallbackSQL
GenerateFallbackSQL(q) ==
  IF \/ "grouped by month" \in q.has
     \/ "group by month" \in q.has
     \/ ("orders" \in q.has /\ "month" \in q.has)
  THEN FallbackMonthSQL
  ELSE IF \/ "grouped by day" \in q.has
          \/ "group by day" \in q.has
          \/ ("orders" \in q.has /\ "day" \in q.has)
  THEN FallbackDaySQL
  ELSE IF "list delivery orders" \in q.has /\ "details" \in q.has
  THEN FallbackListSQL
  ELSE <<>>

\* generateSimplerFallbackSQL
GenerateSimplerFallbackSQL(q) ==
  IF \/ "grouped by month" \in q.has
     \/ "group by month" \in q.has
     \/ ("orders" \in q.has /\ "month" \in q.has)
  THEN SimplerMonthSQL
  ELSE <<>>

SmartSQL_StatusForMonth(queryPattern, found) ==
  IF ~found THEN <<>>
  ELSE CASE queryPattern = "orders_grouped_by_month" -> SmartOrdersByStatusSQL
         [] queryPattern = "orders_by_status" -> SmartOrdersByStatusSQL
         [] queryPattern = "revenue_per_customer" -> SmartRevenuePerCustomerSQL
         [] queryPattern = "month_over_month_growth" -> SmartMonthOverMonthGrowthSQL
         [] queryPattern = "orders_with_high_quantity" -> SmartHighQuantitySQL
         [] OTHER -> <<>>

\* the generate...SQL function executeSmartQuery dispatches to: null (<<>>)
\* when the snapshot has no order table with the columns the template needs
SmartSQL(queryPattern, found) ==
  IF ~found THEN <<>>
  ELSE CASE queryPattern = "orders_grouped_by_month" -> SmartGroupedByMonthSQL
         [] queryPattern = "orders_by_status" -> SmartOrdersByStatusSQL
         [] queryPattern = "revenue_per_customer" -> SmartRevenuePerCustomerSQL
         [] queryPattern = "month_over_month_growth" -> SmartMonthOverMonthGrowthSQL
         [] queryPattern = "orders_with_high_quantity" -> SmartHighQuantitySQL
         [] OTHER -> <<>>

\* the statements the extraction of generateSQLFromQuestion returns: they
\* start with SELECT or WITH and contain FROM
LLMAnswers ==
  { <<"SELECT", "x", "FROM", "x">>,
    <<"WITH", "x", "AS", "(", "SELECT", "x", "FROM", "x", ")", "SELECT", "x", "FROM", "x">>,
    <<"SELECT", "x", "FROM", "x", ";", "DROP", "x">>,
    <<"SELECT", "x", "FROM", "x", "WHERE", "(", "x">> }

\* how the call of the synthesis oracle ends: axios.post throws ("rejected":
\* a network error, a timeout, a status outside 2xx), the reply has no choices,
\* the reply has no line that starts with SELECT or WITH, the statement found
\* has no FROM, or the extraction yields a statement
OracleFailures == {"rejected", "no_choices", "no_select", "no_from"}

OracleOutcomes ==
  [kind : OracleFailures, sql : {<<>>}] \cup [kind : {"statement"}, sql : LLMAnswers]

\* lines 838-845: the built-in statement for month grouping, else null
QuestionFallback(q) ==
  IF "grouped by month" \in q.has \/ "group by month" \in q.has
  THEN SimplerMonthSQL
  ELSE <<>>

CatchGenerating_Rethrows == [kind |-> "thrown", sql |-> <<>>]

\* lines 846-849: the catch block of generateSQLFromQuestion logs and returns
\* null
CatchGenerating == [kind |-> "returned", sql |-> <<>>]

\* generateSQLFromQuestion: the extracted statement, else the built-in
\* statement for month grouping, else null; null as well for whatever is
\* thrown inside its try block
GenerateSQLFromQuestion(q, oracle) ==
  IF oracle.kind = "rejected" THEN CatchGenerating
  ELSE IF oracle.kind = "statement" THEN [kind |-> "returned", sql |-> oracle.sql]
  ELSE [kind |-> "returned", sql |-> QuestionFallback(q)]

\* executeSQLQuery(sql) seen from the route: the kind of value it returns
\* when the database answers (ok) or fails
ExecuteSQLQueryResult(sql, ok) ==
  IF Validate(sql) = "null" THEN "null"
  ELSE IF Validate(sql) = "accepted" /\ ok THEN "success"
  ELSE "error"

\* executeSQLQuery(sql) seen from the database
ExecuteSQLQueryLogs(sql) ==
  IF Validate(sql) = "accepted"
  THEN /\ executed' = Append(executed, sql)
       /\ inspected' = inspected \cup {sql}
  ELSE UNCHANGED <<executed, inspected>>

\* where the handler goes once the value res is in sqlQueryResult and the
\* smart query has been looked at
AfterSmart(res) ==
  IF /\ MustHaveSQL(question)
     /\ res # "success"
     /\ GenerateFallbackSQL(question) # <<>>
  THEN "fallback"
  ELSE "done"

AfterGenerated_AlwaysSmart(res) ==
  IF smartQueryPromise # "null" THEN "smart" ELSE AfterSmart(res)

\* where the handler goes after the synthesized statement, if any, has run
AfterGenerated(res) ==
  IF smartQueryPromise # "null" /\ res # "success" THEN "smart" ELSE AfterSmart(res)

InitChat ==
  /\ question \in Questions
  /\ orderTable \in BOOLEAN
  /\ cpc = "start"
  /\ sqlGenerationAttempts = 0
  /\ routeSql = <<>>
  /\ sqlQueryResult = "null"
  /\ smartQueryPromise = "null"
  /\ executed = <<>>
  /\ inspected = {}
  /\ enhancedMessage = "original"
  /\ generations = <<>>
  /\ IdleValidator
  /\ IdleRetry
  /\ IdleCache
  /\ IdleIntro
  /\ IdleTemplate
  /\ IdleExtract
  /\ IdlePool
  /\ IdleHealth

\* lines 184-228: the pattern is detected and executeSmartQuery is started
\* without being awaited
StartRequest ==
  /\ cpc = "start"
  /\ cpc' = "generate"
  /\ smartQueryPromise' =
       IF SmartQueryPattern(question) # "null" THEN "generating" ELSE "null"
  /\ UNCHANGED <<enhancedMessage, generations, question, orderTable,
                 sqlGenerationAttempts, routeSql,
                 sqlQueryResult, executed, inspected, exceptChat>>

\* executeSmartQuery up to its call of queryWithRetry
SmartGenerated ==
  /\ smartQueryPromise = "generating"
  /\ LET sql == SmartSQL(SmartQueryPattern(question), orderTable)
     IN  IF sql = <<>>
         THEN /\ smartQueryPromise' = "resolved_null"
              /\ UNCHANGED executed
         ELSE /\ smartQueryPromise' = "querying"
              /\ executed' = Append(executed, sql)
  /\ UNCHANGED <<enhancedMessage, generations, question, orderTable,
                 cpc, sqlGenerationAttempts, routeSql,
                 sqlQueryResult, inspected, exceptChat>>

\* queryWithRetry(sql) of executeSmartQuery settles. When it throws, the catch
\* block reads sql, which is declared in the try block: a ReferenceError leaves
\* the catch block and the promise of executeSmartQuery is rejected.
SmartQuerySettles(ok) ==
  /\ smartQueryPromise = "querying"
  /\ smartQueryPromise' = IF ok THEN "resolved_success" ELSE "rejected"
  /\ UNCHANGED <<enhancedMessage, generations, question, orderTable,
                 cpc, sqlGenerationAttempts, routeSql,
                 sqlQueryResult, executed, inspected, exceptChat>>

\* one round of the while loop of lines 230-251. A call that throws leaves
\* sqlQuery and enhancedMessage as they are and the loop goes on while
\* sqlGenerationAttempts < maxAttempts.
GenerateSQL(oracle) ==
  /\ cpc = "generate"
  /\ sqlGenerationAttempts' = sqlGenerationAttempts + 1
  /\ LET r == GenerateSQLFromQuestion(question, oracle)
         retry == sqlGenerationAttempts' < MaxAttempts(question)
     IN  /\ generations' = Append(generations, [prompt |-> enhancedMessage,
                                                oracle |-> oracle.kind,
                                                outcome |-> r.kind,
                                                sql |-> r.sql])
         /\ routeSql' = IF r.kind = "thrown" THEN routeSql ELSE r.sql
         /\ enhancedMessage' =
              IF r.kind = "returned" /\ r.sql = <<>> /\ MustHaveSQL(question) /\ retry
              THEN "strengthened"
              ELSE enhancedMessage
         /\ cpc' = IF routeSql' # <<>> THEN "execute"
                   ELSE IF retry THEN "generate"
                   ELSE AfterGenerated(sqlQueryResult)
  /\ UNCHANGED <<question, orderTable, sqlQueryResult, smartQueryPromise,
                 executed, inspected, exceptChat>>

\* lines 253-290: executeSQLQuery(sqlQuery)
ExecuteGenerated(ok) ==
  /\ cpc = "execute"
  /\ sqlQueryResult' = ExecuteSQLQueryResult(routeSql, ok)
  /\ ExecuteSQLQueryLogs(routeSql)
  /\ cpc' = AfterGenerated(sqlQueryResult')
  /\ UNCHANGED <<enhancedMessage, generations, question, orderTable,
                 sqlGenerationAttempts, routeSql,
                 smartQueryPromise, exceptChat>>

\* lines 293-310: await smartQueryPromise; the .catch of line 224 makes the
\* awaited value null when executeSmartQuery rejected
AwaitSmart ==
  /\ cpc = "smart"
  /\ smartQueryPromise \in {"resolved_success", "resolved_null", "rejected"}
  /\ sqlQueryResult' =
       IF smartQueryPromise = "resolved_success" THEN "success" ELSE sqlQueryResult
  /\ cpc' = AfterSmart(sqlQueryResult')
  /\ UNCHANGED <<enhancedMessage, generations, question, orderTable,
                 sqlGenerationAttempts, routeSql,
                 smartQueryPromise, executed, inspected, exceptChat>>

\* lines 313-331: executeSQLQuery(fallbackSQL)
ExecuteFallback(ok) ==
  /\ cpc = "fallback"
  /\ routeSql' = GenerateFallbackSQL(question)
  /\ sqlQueryResult' = ExecuteSQLQueryResult(routeSql', ok)
  /\ ExecuteSQLQueryLogs(routeSql')
  /\ cpc' = IF /\ sqlQueryResult' = "error"
               /\ GenerateSimplerFallbackSQL(question) # <<>>
            THEN "simpler"
            ELSE "done"
  /\ UNCHANGED <<enhancedMessage, generations, question, orderTable,
                 sqlGenerationAttempts, smartQueryPromise,
                 exceptChat>>

\* lines 333-344: executeSQLQuery(simplerSQL)
ExecuteSimpler(ok) ==
  /\ cpc = "simpler"
  /\ sqlQueryResult' =
       IF ExecuteSQLQueryResult(GenerateSimplerFallbackSQL(question), ok) = "success"
       THEN "success"
       ELSE sqlQueryResult
  /\ ExecuteSQLQueryLogs(GenerateSimplerFallbackSQL(question))
  /\ cpc' = "done"
  /\ UNCHANGED <<enhancedMessage, generations, question, orderTable,
                 sqlGenerationAttempts, routeSql,
                 smartQueryPromise, exceptChat>>

NextChat ==
  \/ StartRequest
  \/ SmartGenerated
  \/ \E ok \in BOOLEAN : SmartQuerySettles(ok)
  \/ \E oracle \in OracleOutcomes : GenerateSQL(oracle)
  \/ \E ok \in BOOLEAN : ExecuteGenerated(ok)
  \/ AwaitSmart
  \/ \E ok \in BOOLEAN : ExecuteFallback(ok)
  \/ \E ok \in BOOLEAN : ExecuteSimpler(ok)

SpecChat == InitChat /\ [][NextChat]_vars

(***************************************************************************)
(* Properties of the chat route.                                           *)
(***************************************************************************)
\* C1: every statement handed to the database for the question was accepted
\* by the checks of executeSQLQuery before: no statement is executed that the
\* validator rejected or never inspected.
C1_EveryExecutedStatementValidated ==
  \A i \in 1..Len(executed) : executed[i] \in inspected

\* the number of background refreshes in flight
BackgroundCount ==
  BagCardinality([act \in BackgroundRefreshes |-> CopiesIn(act, inflight)])

\* C11: however many getSchema calls find the snapshot stale, at most one
\* background refresh is in flight at a time.
C11_AtMostOneBackgroundRefresh == BackgroundCount <= 1

(***************************************************************************)
(* getCompleteSchema and buildRelationshipGraph.                           *)
(*                                                                         *)
(* The catalog lists the base tables 1 .. tableCount in the order of their *)
(* names. Every table has the columns id (its primary key) and ref; ref of *)
(* table t > 1 is a foreign key to column id of table t - 1.               *)
(***************************************************************************)
\* the second copy of getCompleteSchema describes the first 50 tables only
TableLimit == 50

\* the sub-query of a table that errors, if any
FailKinds == {"none", "columns", "indexes", "constraints", "foreignKeys", "primaryKey"}

\* the catalogs: empty, small, and one table more than the limit allows for
TableCounts == {0, 1, 2, 3, MaxTables}

KindOf(fail, t) == IF t \in DOMAIN fail THEN fail[t] ELSE "none"

\* the rows of the foreign-key sub-query of table t, as schema.tables keeps them
ForeignKeysOf(t) ==
  IF t = 1 THEN <<>>
  ELSE <<[column |-> "ref", referencesTable |-> t - 1, referencesColumn |-> "id"]>>

\* the entry the catch block of the per-table try pushes
ErrorEntry(t) ==
  [name |-> t, rowCount |-> 0, columns |-> <<>>, indexes |-> <<>>,
   constraints |-> <<>>, foreignKeys |-> <<>>, primaryKey |-> <<>>,
   error |-> TRUE]

\* a getCompleteSchema that leaves out the description of tables without rows
FullEntry_EmptyTablesBare(t, kind, rowCount) ==
  IF rowCount = 0
  THEN [ErrorEntry(t) EXCEPT !.error = FALSE]
  ELSE [name |-> t, rowCount |-> rowCount,
        columns |-> <<[name |-> "id", isPrimaryKey |-> TRUE, isForeignKey |-> FALSE],
                      [name |-> "ref", isPrimaryKey |-> FALSE, isForeignKey |-> t > 1]>>,
        indexes |-> <<"pkey">>, constraints |-> <<"pkey">>,
        foreignKeys |-> ForeignKeysOf(t), primaryKey |-> <<"id">>, error |-> FALSE]

\* the entry pushed for table t when the sub-query kind, if any, answered
\* { rows: [] } in place of its rows
FullEntry(t, kind, rowCount) ==
  [name |-> t,
   rowCount |-> rowCount,
   columns |->
     IF kind = "columns" THEN <<>>
     ELSE <<[name |-> "id",
             isPrimaryKey |-> kind # "primaryKey",
             isForeignKey |-> FALSE],
            [name |-> "ref",
             isPrimaryKey |-> FALSE,
             isForeignKey |-> kind # "foreignKeys" /\ t > 1]>>,
   indexes |-> IF kind = "indexes" THEN <<>> ELSE <<"pkey">>,
   constraints |-> IF kind = "constraints" THEN <<>> ELSE <<"pkey">>,
   foreignKeys |-> IF kind = "foreignKeys" THEN <<>> ELSE ForeignKeysOf(t),
   primaryKey |-> IF kind = "primaryKey" THEN <<>> ELSE <<"id">>,
   error |-> FALSE]

\* one round of the per-table loop. First copy: every sub-query carries
\* .catch(() => ({ rows: [] })), so no error reaches the catch block. Second
\* copy: the columns query is not guarded and its error reaches the catch
\* block; the other sub-queries have a try / catch of their own.
TableEntry(copy, t, kind, rowCount) ==
  IF copy = 2 /\ kind = "columns" THEN ErrorEntry(t)
  ELSE FullEntry(t, kind, rowCount)

\* tablesToProcess: all rows (first copy), rows.slice(0, 50) (second copy)
TablesToProcess(copy, n) == IF copy = 2 THEN Min(n, TableLimit) ELSE n

\* getCompleteSchema: null when the listing query fails, else the snapshot
GetCompleteSchema(copy, n, fail, listOk, rowCount, now) ==
  IF ~listOk THEN Null
  ELSE IF n = 0
  THEN [kind |-> "snapshot", tables |-> <<>>, totalTables |-> 0, cachedAt |-> now]
  ELSE [kind |-> "snapshot",
        tables |-> [t \in 1..TablesToProcess(copy, n) |->
                      TableEntry(copy, t, KindOf(fail, t), rowCount)],
        totalTables |-> n,
        cachedAt |-> now]

\* buildRelationshipGraph: the foreign keys of all tables, in the order the
\* forEach loops meet them
RECURSIVE Edges(_, _)
Edges(tables, i) ==
  IF i > Len(tables) THEN <<>>
  ELSE [j \in 1..Len(tables[i].foreignKeys) |->
          [fromTable |-> tables[i].name,
           column |-> tables[i].foreignKeys[j].column,
           referencesTable |-> tables[i].foreignKeys[j].referencesTable,
           referencesColumn |-> tables[i].foreignKeys[j].referencesColumn]]
       \o Edges(tables, i + 1)

Outgoing(edges, t) == SelectSeq(edges, LAMBDA e : e.fromTable = t)
Incoming(edges, t) == SelectSeq(edges, LAMBDA e : e.referencesTable = t)

BuildRelationshipGraph(schema) ==
  IF ~IsSnapshot(schema) THEN <<>>
  ELSE LET edges == Edges(schema.tables, 1)
           names == {schema.tables[i].name : i \in 1..Len(schema.tables)}
                      \cup {edges[k].referencesTable : k \in 1..Len(edges)}
       IN  [t \in names |->
              [outgoing |-> Outgoing(edges, t), incoming |-> Incoming(edges, t)]]

InitIntro ==
  /\ schemaCopy \in {1, 2}
  /\ tableCount \in TableCounts
  /\ failing \in [1..Min(tableCount, MaxFailing) -> FailKinds]
  /\ liveRows \in {0, 7}
  /\ ipc = "first"
  /\ snap1 = [kind |-> "none"]
  /\ snap2 = [kind |-> "none"]
  /\ IdleValidator
  /\ IdleRetry
  /\ IdleCache
  /\ IdleChat
  /\ IdleTemplate
  /\ IdleExtract
  /\ IdlePool
  /\ IdleHealth

\* the first getCompleteSchema call; statsOk: the row statistics could be read
Introspect(listOk, statsOk) ==
  /\ ipc = "first"
  /\ snap1' = GetCompleteSchema(schemaCopy, tableCount, failing, listOk,
                                IF statsOk THEN liveRows ELSE 0, 0)
  /\ ipc' = IF listOk /\ statsOk THEN "second" ELSE "done"
  /\ UNCHANGED <<schemaCopy, tableCount, failing, liveRows, snap2, exceptIntro>>

\* rows are inserted into the tables; the catalog stays as it is
RowsChange ==
  /\ ipc = "second"
  /\ liveRows' = 7 - liveRows
  /\ UNCHANGED <<schemaCopy, tableCount, failing, ipc, snap1, snap2, exceptIntro>>

\* the second getCompleteSchema call, an hour later, against the same catalog
\* and with the same sub-queries succeeding
IntrospectAgain ==
  /\ ipc = "second"
  /\ snap2' = GetCompleteSchema(schemaCopy, tableCount, failing, TRUE, liveRows, 1)
  /\ ipc' = "done"
  /\ UNCHANGED <<schemaCopy, tableCount, failing, liveRows, snap1, exceptIntro>>

NextIntro ==
  \/ \E listOk \in BOOLEAN, statsOk \in BOOLEAN : Introspect(listOk, statsOk)
  \/ RowsChange
  \/ IntrospectAgain

SpecIntro == InitIntro /\ [][NextIntro]_vars

(***************************************************************************)
(* Properties of getCompleteSchema.                                        *)
(***************************************************************************)
FailedTables == {t \in DOMAIN failing : failing[t] # "none"}

\* C12: when sub-queries of some tables error while the listing succeeds, the
\* snapshot holds every other table fully described and each failed table
\* with an error marker and an empty column list.
C12_FailedTableFlagged ==
  (IsSnapshot(snap1) /\ FailedTables # {}) =>
    /\ Len(snap1.tables) = tableCount
    /\ \A t \in 1..tableCount :
         IF t \in FailedTables
         THEN snap1.tables[t].error /\ snap1.tables[t].columns = <<>>
         ELSE snap1.tables[t] = FullEntry(t, "none", snap1.tables[t].rowCount)

\* C13: every snapshot getCompleteSchema returns has as many table entries as
\* totalTables says, whatever the size of the catalog and whichever sub-queries
\* failed.
C13_TablesLengthIsTotalTables ==
  IsSnapshot(snap1) => Len(snap1.tables) = snap1.totalTables

WithoutRowCounts(tables) ==
  [i \in 1..Len(tables) |-> [tables[i] EXCEPT !.rowCount = 0]]

Contains(name, part) ==
  \/ name = part
  \/ <<name, part>> \in
       { <<"created_at", "created">>, <<"update_date", "date">>,
         <<"accountid", "account">>,
         <<"deliveryorderid", "orderid">>, <<"deliveryorderid", "order">>,
         <<"deliveryorderid", "delivery">>,
         <<"customers", "customer">>,
         <<"delivery_orders", "order">>, <<"delivery_orders", "delivery">>,
         <<"deliveryorderdetails", "order">>, <<"deliveryorderdetails", "delivery">>,
         <<"timestamp", "time">> }

ContainsAny(name, parts) == \E part \in parts : Contains(name, part)

\* the columns a table of the snapshots may have, in their ordinal position
OrderColumns ==
  <<[name |-> "id", type |-> "integer"],
    [name |-> "update_date", type |-> "date"],
    [name |-> "created_at", type |-> "timestamp"],
    [name |-> "shipped", type |-> "timestamp"],
    [name |-> "status", type |-> "text"],
    [name |-> "total", type |-> "numeric"],
    [name |-> "accountid", type |-> "integer"]>>

DetailColumns ==
  <<[name |-> "deliveryorderid", type |-> "integer"],
    [name |-> "quantity", type |-> "integer"]>>

Names(columns) == {columns[i].name : i \in 1..Len(columns)}

Keep(columns, names) == SelectSeq(columns, LAMBDA c : c.name \in names)

\* the snapshots: null, or the table customers followed by delivery_orders and
\* deliveryorderdetails, each absent or with some of its columns
Schemas ==
  {Null} \cup
  { [kind |-> "snapshot",
     tables |-> <<[name |-> "customers", columns |-> <<OrderColumns[1]>>]>>
                \o orders \o details] :
      orders \in {<<>>} \cup
        { <<[name |-> "delivery_orders", columns |-> Keep(OrderColumns, s)]>> :
            s \in SUBSET Names(OrderColumns) },
      details \in {<<>>} \cup
        { <<[name |-> "deliveryorderdetails", columns |-> Keep(DetailColumns, s)]>> :
            s \in SUBSET Names(DetailColumns) } }

\* Array.prototype.find: the first element that satisfies Test, Null if none
Find(seq, Test(_)) ==
  IF \E i \in 1..Len(seq) : Test(seq[i])
  THEN seq[CHOOSE i \in 1..Len(seq) :
             Test(seq[i]) /\ \A j \in 1..(i - 1) : ~Test(seq[j])]
  ELSE Null

\* detectOrderTable
DetectOrderTable(s) ==
  IF ~IsSnapshot(s) THEN Null
  ELSE LET ordersTables ==
             SelectSeq(s.tables,
                       LAMBDA t : ContainsAny(t.name, {"order", "delivery", "invoice"}))
           deliveryOrderTable ==
             Find(ordersTables,
                  LAMBDA t : t.name \in {"deliveryorders", "delivery_orders"})
       IN  IF deliveryOrderTable # Null THEN deliveryOrderTable
           ELSE IF ordersTables # <<>> THEN ordersTables[1]
           ELSE Null

\* dateColumnNames of detectDateColumn
DateColumnNames ==
  <<"created_at", "createdat", "created", "order_date", "date", "timestamp", "createdon">>

\* the loop of detectDateColumn from its k-th name on: the name of the first
\* column found, "null" when the loop ends without one
RECURSIVE DateColumnByName(_, _)
DateColumnByName(columns, k) ==
  IF k > Len(DateColumnNames) THEN "null"
  ELSE LET col == Find(columns,
                       LAMBDA c : \/ c.name = DateColumnNames[k]
                                  \/ Contains(c.name, "created")
                                  \/ Contains(c.name, "date"))
       IN  IF col # Null THEN col.name ELSE DateColumnByName(columns, k + 1)

\* detectDateColumn: the column's name, "null" for null
DetectDateColumn(columns) ==
  IF columns = <<>> THEN "null"
  ELSE IF DateColumnByName(columns, 1) # "null" THEN DateColumnByName(columns, 1)
  ELSE LET dateCol == Find(columns,
                           LAMBDA c : ContainsAny(c.type, {"timestamp", "date", "time"}))
       IN  IF dateCol # Null THEN dateCol.name ELSE "null"

\* the name of the first column one of whose name parts is in parts, "null"
\* when columns.find(...) is undefined
ColumnLike(columns, parts) ==
  LET col == Find(columns, LAMBDA c : ContainsAny(c.name, parts))
  IN  IF col # Null THEN col.name ELSE "null"

\* an emitted statement: its template and the quoted identifiers the template
\* literal interpolates, as <<table, column>>; a null interpolates as "null"
Emitted(pattern, refs) == [kind |-> "sql", pattern |-> pattern, refs |-> refs]

Refs(table, columns) == {<<table, c>> : c \in columns}

\* generateSmartGroupedByMonthSQL
GenerateSmartGroupedByMonthSQL(s) ==
  LET ordersTable == DetectOrderTable(s)
  IN  IF ordersTable = Null THEN Null
      ELSE LET dateColumn == DetectDateColumn(ordersTable.columns)
           IN  IF dateColumn = "null" THEN Null
               ELSE Emitted("orders_grouped_by_month",
                            Refs(ordersTable.name, {dateColumn}))

\* generateOrdersByStatusSQL
GenerateOrdersByStatusSQL(s) ==
  LET ordersTable == DetectOrderTable(s)
  IN  IF ordersTable = Null THEN Null
      ELSE LET dateColumn == DetectDateColumn(ordersTable.columns)
               statusColumn == ColumnLike(ordersTable.columns, {"status", "state"})
               revenueColumn ==
                 ColumnLike(ordersTable.columns,
                            {"total", "amount", "grandtotal", "revenue"})
           IN  IF statusColumn = "null" \/ revenueColumn = "null" THEN Null
               ELSE Emitted("orders_by_status",
                            Refs(ordersTable.name,
                                 {statusColumn, revenueColumn, dateColumn}))

\* generateRevenuePerCustomerSQL
GenerateRevenuePerCustomerSQL(s) ==
  LET ordersTable == DetectOrderTable(s)
  IN  IF ordersTable = Null THEN Null
      ELSE LET accountColumn == ColumnLike(ordersTable.columns, {"account", "customer"})
               revenueColumn ==
                 ColumnLike(ordersTable.columns, {"total", "amount", "grandtotal"})
           IN  IF accountColumn = "null" \/ revenueColumn = "null" THEN Null
               ELSE Emitted("revenue_per_customer",
                            Refs(ordersTable.name, {accountColumn, revenueColumn}))

\* generateMonthOverMonthGrowthSQL
GenerateMonthOverMonthGrowthSQL(s) ==
  LET ordersTable == DetectOrderTable(s)
  IN  IF ordersTable = Null THEN Null
      ELSE LET dateColumn == DetectDateColumn(ordersTable.columns)
           IN  IF dateColumn = "null" THEN Null
               ELSE Emitted("month_over_month_growth",
                            Refs(ordersTable.name, {dateColumn}))

\* generateOrdersWithHighQuantitySQL
GenerateOrdersWithHighQuantitySQL(s) ==
  IF ~IsSnapshot(s) THEN Null
  ELSE
    LET ordersTable ==
          Find(s.tables, LAMBDA t : t.name \in {"deliveryorders", "delivery_orders"})
        detailTable ==
          Find(s.tables,
               LAMBDA t : t.name \in {"deliveryorderdetails", "delivery_order_details"})
    IN  IF ordersTable = Null \/ detailTable = Null THEN Null
        ELSE
          LET accountColumn == ColumnLike(ordersTable.columns, {"account"})
              revenueColumn == ColumnLike(ordersTable.columns, {"total", "grandtotal"})
              quantityColumn == ColumnLike(detailTable.columns, {"quantity", "qty"})
              orderIdColumn ==
                IF Find(ordersTable.columns, LAMBDA c : c.name = "id") # Null
                THEN "id" ELSE "null"
              detailOrderIdColumn ==
                ColumnLike(detailTable.columns, {"deliveryorderid", "orderid"})
          IN  IF \/ accountColumn = "null" \/ revenueColumn = "null"
                 \/ quantityColumn = "null" \/ orderIdColumn = "null"
                 \/ detailOrderIdColumn = "null"
              THEN Null
              ELSE Emitted("orders_with_high_quantity",
                           Refs(ordersTable.name,
                                {orderIdColumn, accountColumn, revenueColumn})
                           \cup Refs(detailTable.name,
                                     {quantityColumn, detailOrderIdColumn}))

\* the patterns executeSmartQuery knows
QueryPatterns ==
  {"orders_grouped_by_month", "orders_by_status", "revenue_per_customer",
   "month_over_month_growth", "orders_with_high_quantity"}

\* the dispatch of executeSmartQuery
GenerateFor(queryPattern, s) ==
  CASE queryPattern = "orders_grouped_by_month" -> GenerateSmartGroupedByMonthSQL(s)
    [] queryPattern = "orders_by_status" -> GenerateOrdersByStatusSQL(s)
    [] queryPattern = "revenue_per_customer" -> GenerateRevenuePerCustomerSQL(s)
    [] queryPattern = "month_over_month_growth" -> GenerateMonthOverMonthGrowthSQL(s)
    [] queryPattern = "orders_with_high_quantity" -> GenerateOrdersWithHighQuantitySQL(s)
    [] OTHER -> Null

InitTemplate ==
  /\ tSchema \in Schemas
  /\ tPattern = "none"
  /\ tSql = [kind |-> "none"]
  /\ IdleValidator /\ IdleRetry /\ IdleCache /\ IdleChat /\ IdleIntro
  /\ IdleExtract
  /\ IdlePool
  /\ IdleHealth

\* executeSmartQuery up to "if (!sql) return null"
GenerateTemplate ==
  /\ tPattern = "none"
  /\ \E p \in QueryPatterns :
       /\ tPattern' = p
       /\ tSql' = GenerateFor(p, tSchema)
  /\ UNCHANGED <<tSchema, exceptTemplate>>

\* the next request: the snapshot is the one getSchema(true) returns then
NextRequest ==
  /\ tPattern # "none"
  /\ tPattern' = "none"
  /\ tSql' = [kind |-> "none"]
  /\ tSchema' \in Schemas
  /\ UNCHANGED exceptTemplate

NextTemplate == GenerateTemplate \/ NextRequest

SpecTemplate == InitTemplate /\ [][NextTemplate]_vars

\* the <<table, column>> pairs of a snapshot
SnapshotIdentifiers(s) ==
  IF ~IsSnapshot(s) THEN {}
  ELSE UNION { Refs(s.tables[i].name, Names(s.tables[i].columns)) :
                 i \in 1..Len(s.tables) }

\* C15: a template emits a statement only with identifiers that are in the
\* snapshot: every table and column the emitted statement references was found
C15_EmittedIdentifiersInSnapshot ==
  (tSql.kind = "sql") => tSql.refs \subseteq SnapshotIdentifiers(tSchema)

\* the question "orders grouped by month"
OrdersGroupedByMonth ==
  [head |-> "orders", has |-> {"grouped by month", "orders", "month"}]

\* the statement x is among the statements sent to the database
WasExecuted(x) == \E i \in 1..Len(executed) : executed[i] = x

C17_PatternInspectedOnlyAfterFailedSynthesis ==
  [][ /\ (sqlGenerationAttempts' > sqlGenerationAttempts
            => (smartQueryPromise = "null" <=> SmartQueryPattern(question) = "null"))
      /\ (cpc = "smart"
            => /\ sqlQueryResult # "success"
               /\ sqlGenerationAttempts >= 1
               /\ smartQueryPromise # "null")
      /\ ((cpc = "execute" /\ sqlQueryResult' = "success")
            => (cpc' = "done" /\ routeSql' = routeSql))
      /\ (cpc = "done" => (sqlQueryResult' = sqlQueryResult /\ cpc' = "done")) ]_vars

\* the synthesized statement succeeded while the pattern query was still
\* running: the request is done and the pattern outcome was never awaited
C17_Witness ==
  /\ cpc = "done"
  /\ sqlQueryResult = "success"
  /\ smartQueryPromise = "querying"
  /\ sqlGenerationAttempts >= 1
  /\ WasExecuted(routeSql)

(***************************************************************************)
(* The pool's 'error' event handler of config/database.js.                 *)
(***************************************************************************)
\* err.code of the errors the pool emits; "undefined" for an error without code
PoolErrorCodes ==
  {"ETIMEDOUT", "EHOSTUNREACH", "ECONNREFUSED", "ECONNRESET", "ENOTFOUND",
   "57P01", "undefined"}

\* the test of line 63: the codes the handler does not exit on
IsNonCritical(code) == code \in {"ETIMEDOUT", "EHOSTUNREACH", "ECONNREFUSED"}

InitPool ==
  /\ processState = "running"
  /\ poolErrors = <<>>
  /\ IdleValidator /\ IdleRetry /\ IdleCache /\ IdleChat /\ IdleIntro
  /\ IdleTemplate /\ IdleExtract
  /\ IdleHealth

\* pool.on('error', (err) => ...)
PoolOnError(code) ==
  /\ processState = "running"
  /\ Len(poolErrors) < MaxPoolEvents
  /\ poolErrors' = Append(poolErrors, code)
  /\ processState' = IF IsNonCritical(code) THEN "running" ELSE "exited"
  /\ UNCHANGED exceptPool

NextPool == \E code \in PoolErrorCodes : PoolOnError(code)

SpecPool == InitPool /\ [][NextPool]_vars

\* timeout, refused, unreachable, reset
NetworkClassCodes == {"ETIMEDOUT", "ECONNREFUSED", "EHOSTUNREACH", "ECONNRESET"}

\* C18: the process has exited exactly when the pool error handled last was not
\* network-class; an event with code ETIMEDOUT, ECONNREFUSED, EHOSTUNREACH or
\* ECONNRESET never ends it.
C18_ExitIffNotNetworkClass ==
  /\ (processState = "exited"
        => poolErrors[Len(poolErrors)] \notin NetworkClassCodes)
  /\ (processState = "running"
        => \A i \in 1..Len(poolErrors) : poolErrors[i] \in NetworkClassCodes)

(***************************************************************************)
(* The extraction of generateSQLFromQuestion: from the oracle's reply to   *)
(* the statement it returns.  A reply is the sequence of its lines, a line *)
(* the sequence of its words.                                              *)
(***************************************************************************)
SelectLine == <<"SELECT", "x", "FROM", "t">>
SelectLineSemi == <<"SELECT", "x", "FROM", "t;">>
WhereQuoted == <<"WHERE", "s", "=", "'a'">>
WhereOpen == <<"WHERE", "(s", "=", "'a'">>
LabelledLine ==
  <<"SQL:", "SELECT", "name,", "COUNT(*)", "AS", "value", "FROM", "widgets",
    "GROUP", "BY", "name">>
ExplanationLine == <<"This", "query", "lists", "x">>
HereLine == <<"Here", "you", "go:">>
ProseLine == <<"It", "is", "sorted,", "ascending">>
LongProseLine ==
  <<"It", "aggregates", "delivery_orders", "chronologically", "by", "calendar",
    "month">>
EmptyLine == <<>>
\* the code fences of markdown; ~ stands for the backquote character
FenceSql == <<"~~~sql">>
Fence == <<"~~~">>

ReplyLines ==
  {SelectLine, SelectLineSemi, WhereQuoted, WhereOpen, LabelledLine, ExplanationLine,
   HereLine, ProseLine, LongProseLine, EmptyLine, FenceSql, Fence}

\* n copies of line
Copies(line, n) == [i \in 1..n |-> line]

\* the replies: up to MaxReplyLines lines, and a statement, ended and
\* explained or left open, followed by up to MaxProseRun lines of prose
Replies ==
  UNION {[1..n -> ReplyLines] : n \in 0..MaxReplyLines}
  \cup {<<SelectLineSemi, ExplanationLine>> \o Copies(ProseLine, n) : n \in 0..MaxProseRun}
  \cup {<<SelectLine, WhereOpen>> \o Copies(ProseLine, n) : n \in 0..MaxProseRun}

\* the characters of a word
WordLength(w) ==
  CASE w \in {"x", "t", "s", "="} -> 1
    [] w \in {"t;", "(s", "AS", "BY", "It", "is", "by"} -> 2
    [] w \in {"'a'", "you", "go:", "~~~"} -> 3
    [] w \in {"FROM", "SQL:", "name", "This", "Here"} -> 4
    [] w \in {"name,", "value", "GROUP", "WHERE", "query", "lists", "month"} -> 5
    [] w \in {"SELECT", "~~~sql"} -> 6
    [] w \in {"widgets", "sorted,"} -> 7
    [] w \in {"COUNT(*)", "calendar"} -> 8
    [] w = "ascending" -> 9
    [] w = "aggregates" -> 10
    [] w \in {"delivery_orders", "chronologically"} -> 15

\* line.length of a trimmed line: its words and the spaces between them
RECURSIVE LineLength(_)
LineLength(line) ==
  IF line = <<>> THEN 0
  ELSE IF Len(line) = 1 THEN WordLength(line[1])
  ELSE WordLength(line[1]) + 1 + LineLength(Tail(line))

\* /^(SELECT|WITH|FROM|...|CURRENT_TIMESTAMP)/i at the start of a line
MatchesSqlKeywords(line) ==
  /\ line # <<>>
  /\ line[1] \in {"SELECT", "FROM", "WHERE", "GROUP", "AS", "COUNT(*)", "ascending"}

\* /^[A-Z_][A-Z0-9_]*\s*[=<>!]/i : an identifier, then a comparison operator
MatchesComparison(line) ==
  /\ Len(line) >= 2
  /\ line[1] \in {"x", "t", "s", "name", "value", "widgets", "month"}
  /\ line[2] = "="

HasAny(line, chars) == \E i \in 1..Len(line) : line[i] \in chars

\* /[(),]/
HasParenOrComma(line) == HasAny(line, {"name,", "COUNT(*)", "sorted,", "(s"})

EndsWithSemicolon(line) == line # <<>> /\ line[Len(line)] \in {"t;"}

\* /'/ : the line holds a single quote
HasSingleQuote(line) == HasAny(line, {"'a'"})

\* /"/ : none of the words above holds a double quote
HasDoubleQuote(line) == HasAny(line, {})

\* /^(This|The|Here|Note|Explanation|Query|Result|Returns|Shows|Displays|Finds|Gets)/i
IsExplanation(line) ==
  line # <<>> /\ line[1] \in {"This", "Here", "query"}

\* string.trim() of the joined lines: the empty lines at both ends go
RECURSIVE TrimLines(_)
TrimLines(ls) ==
  IF ls = <<>> THEN <<>>
  ELSE IF Head(ls) = <<>> THEN TrimLines(Tail(ls))
  ELSE IF ls[Len(ls)] = <<>> THEN TrimLines(SubSeq(ls, 1, Len(ls) - 1))
  ELSE ls

StripLabel_Kept(ls) == ls

\* replace(/^SQL:\s*/i, '').trim() on the trimmed reply
StripLabel(ls) ==
  IF ls # <<>> /\ Head(ls)[1] = "SQL:"
  THEN TrimLines(IF Tail(Head(ls)) = <<>> THEN Tail(ls)
                 ELSE <<Tail(Head(ls))>> \o Tail(ls))
  ELSE ls

\* replace(/~~~sql\n?/gi, '').replace(/~~~\n?/g, '').trim()
RemoveFences(ls) == TrimLines(SelectSeq(ls, LAMBDA l : l \notin {FenceSql, Fence}))

\* the word holds an s or an S
ContainsS(w) ==
  w \in {"SELECT", "SQL:", "AS", "widgets", "s", "(s", "This", "lists", "is", "sorted,",
         "ascending", "~~~sql", "aggregates", "delivery_orders"}

\* the position <<line, word>> of the first SELECT of the text, <<0, 0>> if none
FirstSelect(ls) ==
  IF \E i \in 1..Len(ls) : \E j \in 1..Len(ls[i]) : ls[i][j] = "SELECT"
  THEN LET i == CHOOSE i \in 1..Len(ls) :
                  /\ \E j \in 1..Len(ls[i]) : ls[i][j] = "SELECT"
                  /\ \A k \in 1..(i - 1) : \A j \in 1..Len(ls[k]) : ls[k][j] # "SELECT"
           j == CHOOSE j \in 1..Len(ls[i]) :
                  /\ ls[i][j] = "SELECT"
                  /\ \A k \in 1..(j - 1) : ls[i][k] # "SELECT"
       IN  <<i, j>>
  ELSE <<0, 0>>

\* replace(/^[^S]*?(?=SELECT)/i, '').trim(): what precedes the first SELECT
\* goes when it holds no s
StripBeforeSelect(ls) ==
  LET p == FirstSelect(ls)
  IN  IF /\ p[1] > 0
         /\ \A k \in 1..(p[1] - 1) : \A j \in 1..Len(ls[k]) : ~ContainsS(ls[k][j])
         /\ \A j \in 1..(p[2] - 1) : ~ContainsS(ls[p[1]][j])
      THEN TrimLines(<<SubSeq(ls[p[1]], p[2], Len(ls[p[1]]))>>
                     \o SubSeq(ls, p[1] + 1, Len(ls)))
      ELSE ls

\* lines 573-588
Cleaned(content) == StripBeforeSelect(RemoveFences(StripLabel(TrimLines(content))))

\* trimmed.startsWith('SELECT') || trimmed.startsWith('WITH'), in upper case
StartsWithSelectOrWith(line) == line # <<>> /\ line[1] \in {"SELECT", "WITH"}

\* the index of the first line of ls from i on that satisfies Test, 0 if none
FirstFrom(ls, i, Test(_)) ==
  IF \E k \in i..Len(ls) : Test(ls[k])
  THEN CHOOSE k \in i..Len(ls) : Test(ls[k]) /\ \A j \in i..(k - 1) : ~Test(ls[j])
  ELSE 0

\* sqlStartIndex, counted from 1; 0 for -1
SqlStartIndex(ls) == FirstFrom(ls, 1, StartsWithSelectOrWith)

\* lines 619-621: the line counts as SQL
TracksAsSQL(line) ==
  MatchesSqlKeywords(line) \/ MatchesComparison(line) \/ HasParenOrComma(line)

\* lines 642-643: the line after a semicolon is clearly an explanation
ClearlyNotSQL(line) ==
  \/ IsExplanation(line)
  \/ (LineLength(line) > 50 /\ ~MatchesSqlKeywords(line) /\ ~HasParenOrComma(line))

\* the loop of lines 615-658 from line i on: the number of the last line of
\* the statement (sqlEndIndex, which is exclusive and counted from 0)
RECURSIVE SqlEndIndex(_, _, _, _)
SqlEndIndex(ls, i, foundSemicolon, lastSQLKeywordLine) ==
  IF i > Len(ls)
  THEN IF foundSemicolon THEN lastSQLKeywordLine ELSE Len(ls)
  ELSE LET semi == EndsWithSemicolon(ls[i])
           found == semi \/ (foundSemicolon /\ ~TracksAsSQL(ls[i]))
           last == IF semi \/ TracksAsSQL(ls[i]) THEN i ELSE lastSQLKeywordLine
           nextNonEmpty == FirstFrom(ls, i + 1, LAMBDA l : l # <<>>)
       IN  IF semi /\ (nextNonEmpty = 0 \/ ClearlyNotSQL(ls[nextNonEmpty]))
           THEN i
           ELSE SqlEndIndex(ls, i + 1, found, last)

\* a.includes(b) on trimmed lines
LineIncludes(a, b) ==
  \/ b = <<>>
  \/ \E i \in 0..(Len(a) - Len(b)) : SubSeq(a, i + 1, i + Len(b)) = b
  \/ <<a, b>> \in {<<SelectLineSemi, SelectLine>>, <<FenceSql, Fence>>}

\* lines 682-684 and 785-787
Similar(origLine, extractedLastLine) ==
  \/ LineIncludes(origLine, extractedLastLine)
  \/ LineIncludes(extractedLastLine, origLine)

\* the first line of the original reply that is similar to line, 0 if none
MatchIndex(originalLines, line) ==
  FirstFrom(originalLines, 1, LAMBDA l : Similar(l, line))

\* originalLines.slice(m + 1, m + 1 + n).filter(...), as line numbers of the
\* reply, where m is the number of the line matched
Continuation(originalLines, m, n) ==
  SelectSeq([k \in 1..(Min(m + n, Len(originalLines)) - m) |-> m + k],
            LAMBDA k : originalLines[k] # <<>> /\ ~IsExplanation(originalLines[k]))

\* lines 709-711
CompletesStatement(line) ==
  \/ EndsWithSemicolon(line)
  \/ line[Len(line)] \in {"'a'"}
  \/ line[1] \in {")"}

\* /^(This|The|Here|Note|Explanation)/i
IsShortExplanation(line) == line[1] \in {"This", "Here"}

FirstPassSlice == 24
FirstPassCap == 15
SecondPassSlice == 19
SecondPassCap == 10

\* the loop of lines 700-724 at its k-th round: how many lines of the
\* continuation end up in addedLines
RECURSIVE AddedLines(_, _, _)
AddedLines(originalLines, continuation, k) ==
  IF k > Len(continuation) THEN Len(continuation)
  ELSE IF CompletesStatement(originalLines[continuation[k]]) THEN k
  ELSE IF IsShortExplanation(originalLines[continuation[k]]) /\ k > 3 THEN k - 1
  ELSE IF k >= FirstPassCap THEN k
  ELSE AddedLines(originalLines, continuation, k + 1)

\* /\b(LEF|RIGH|CURREN|INNE|OUTE)\s*$/i, /\b(>=|<=|<>|!=|=|<|>)\s*$/ and the
\* two quote patterns of incompleteMarkers; no word above ends with an
\* operator that follows a letter
NeedsMore(line) ==
  \/ HasSingleQuote(line)
  \/ line[Len(line)] \in {"LEF", "RIGH", "CURREN", "INNE", "OUTE"}

\* the line numbers of the reply lines 664-733 append to the statement ls,
\* which ended before the end of the text (cut) or not
FirstPass(originalLines, ls, cut) ==
  IF ~(NeedsMore(ls[Len(ls)]) \/ cut) THEN <<>>
  ELSE LET m == MatchIndex(originalLines, ls[Len(ls)])
       IN  IF m = 0 THEN <<>>
           ELSE LET continuation == Continuation(originalLines, m, FirstPassSlice)
                IN  SubSeq(continuation, 1, AddedLines(originalLines, continuation, 1))

\* replace(/;+\s*$/, '').trim()
StripTrailingSemicolon(ls) ==
  IF ls # <<>> /\ EndsWithSemicolon(ls[Len(ls)])
  THEN [ls EXCEPT ![Len(ls)] = [@ EXCEPT ![Len(@)] = "t"]]
  ELSE ls

\* all the words of the text
RECURSIVE Words(_)
Words(ls) == IF ls = <<>> THEN <<>> ELSE Head(ls) \o Words(Tail(ls))

\* upperQuery.includes('FROM')
IncludesFrom(ls) == HasAny(Words(ls), {"FROM"})

\* incompletePatterns on the last line
IsIncomplete(lastLine) ==
  \/ lastLine[Len(lastLine)] \in
       {"CURREN", "EXTRACT", "DATE", "COUNT", "SUM", "AVG", "MAX", "MIN",
        "COALESCE", "CASE", "WHEN", "THEN", "ELSE", "LEF", "RIGH", "INNE",
        "OUTE", "CROSS", "NATURA"}
  \/ lastLine[Len(lastLine)] \in {"name,", "sorted,"}
  \/ HasSingleQuote(lastLine)
  \/ HasDoubleQuote(lastLine)
  \/ lastLine[Len(lastLine)] \in
       {"AND", "OR", "WHERE", "JOIN", "LEFT", "RIGHT", "INNER", "OUTER", "CROSS",
        "NATURAL"}

\* (sqlQuery.match(/c/g) || []).length for the character c
CountChar(ls, c) ==
  LET n(w) == CASE c = "(" /\ w \in {"COUNT(*)", "(s"} -> 1
                [] c = ")" /\ w = "COUNT(*)" -> 1
                [] c = "'" /\ w = "'a'" -> 2
                [] OTHER -> 0
      ws == Words(ls)
      sum[i \in 0..Len(ws)] == IF i = 0 THEN 0 ELSE sum[i - 1] + n(ws[i])
  IN  sum[Len(ws)]

\* line 766
AppearsIncomplete(ls) ==
  \/ IsIncomplete(ls[Len(ls)])
  \/ CountChar(ls, "(") # CountChar(ls, ")")
  \/ CountChar(ls, "'") % 2 # 0
  \/ CountChar(ls, "\"") % 2 # 0

\* lines 800-801: the continuation text looks like SQL
LooksLikeSQL(text) ==
  \/ HasAny(Words(text), {"name,", "COUNT(*)", "sorted,", "(s", "t;", "'a'"})
  \/ text[1][1] \in {"GROUP", "FROM", "WHERE"}

\* the line numbers of the reply lines 773-823 append to the statement ls
SecondPass(originalLines, ls) ==
  LET m == MatchIndex(originalLines, ls[Len(ls)])
  IN  IF m = 0 THEN <<>>
      ELSE LET found == Continuation(originalLines, m, SecondPassSlice)
               continuation == SubSeq(found, 1, Min(Len(found), SecondPassCap))
           IN  IF /\ continuation # <<>>
                  /\ LooksLikeSQL([k \in 1..Len(continuation) |->
                                     originalLines[continuation[k]]])
               THEN continuation
               ELSE <<>>

LinesAt(originalLines, numbers) ==
  [k \in 1..Len(numbers) |-> originalLines[numbers[k]]]

\* lines 572-835: the statement returned for the reply content, with the line
\* numbers each pass appended and whether line 766 found it incomplete, or
\* null when the reply holds no usable statement
ExtractSQL(content) ==
  LET lines == Cleaned(content)
      start == SqlStartIndex(lines)
      end == SqlEndIndex(lines, start, FALSE, start)
      block == TrimLines(SubSeq(lines, start, end))
      added1 == FirstPass(content, block, end < Len(lines))
      stitched == StripTrailingSemicolon(block \o LinesAt(content, added1))
      added2 == IF AppearsIncomplete(stitched) THEN SecondPass(content, stitched)
                ELSE <<>>
  IN  IF start = 0 \/ ~IncludesFrom(stitched) THEN Null
      ELSE [kind |-> "sql",
            lines |-> stitched \o LinesAt(content, added2),
            incomplete |-> AppearsIncomplete(stitched),
            added1 |-> added1,
            added2 |-> added2]

InitExtract ==
  /\ llmReply = <<>>
  /\ xpc = "idle"
  /\ extraction = [kind |-> "none"]
  /\ IdleValidator /\ IdleRetry /\ IdleCache /\ IdleChat /\ IdleIntro
  /\ IdleTemplate /\ IdlePool
  /\ IdleHealth

\* lines 541-565: the oracle answers the request of generateSQLFromQuestion
OracleReplies ==
  /\ xpc = "idle"
  /\ xpc' = "replied"
  /\ llmReply' \in Replies
  /\ UNCHANGED <<extraction, exceptExtract>>

\* lines 572-835 of generateSQLFromQuestion on the reply received
Extract ==
  /\ xpc = "replied"
  /\ xpc' = "extracted"
  /\ extraction' = ExtractSQL(llmReply)
  /\ UNCHANGED <<llmReply, exceptExtract>>

\* generateSQLFromQuestion has returned; the next call starts afresh
ReturnSQL ==
  /\ xpc = "extracted"
  /\ xpc' = "idle"
  /\ llmReply' = <<>>
  /\ extraction' = [kind |-> "none"]
  /\ UNCHANGED exceptExtract

NextExtract == OracleReplies \/ Extract \/ ReturnSQL

SpecExtract == InitExtract /\ [][NextExtract]_vars

(***************************************************************************)
(* Properties of the extraction.                                           *)
(***************************************************************************)
\* the lines of prose of the replies
ProseLines == {ExplanationLine, HereLine, ProseLine, LongProseLine}

\* the number of the first explanation-like line of the reply, 0 if none
FirstExplanation == FirstFrom(llmReply, 1, IsExplanation)

\* the reply holds a statement followed by explanation lines
StatementThenExplanation ==
  /\ FirstExplanation > 0
  /\ \E i \in 1..(FirstExplanation - 1) :
       \E j \in 1..Len(llmReply[i]) : llmReply[i][j] = "SELECT"

\* C19: for a reply that holds a statement followed by explanation lines, the
\* passes append no line at or after the first explanation-like line, the
\* first pass appends at most 15 lines and the second at most 10, and the
\* statement returned holds no line of prose of the reply.
C19_NoProseStitched ==
  (xpc = "extracted" /\ extraction.kind = "sql" /\ StatementThenExplanation) =>
    /\ \A k \in 1..Len(extraction.added1) : extraction.added1[k] < FirstExplanation
    /\ \A k \in 1..Len(extraction.added2) : extraction.added2[k] < FirstExplanation
    /\ Len(extraction.added1) <= FirstPassCap
    /\ Len(extraction.added2) <= SecondPassCap
    /\ \A i \in 1..Len(extraction.lines) : extraction.lines[i] \notin ProseLines

\* the statement of the reply LabelledLine, without its label
WidgetsStatement == Tail(LabelledLine)

\* C20: for the one-line reply "SQL: SELECT name, COUNT(*) AS value FROM
\* widgets GROUP BY name" the extraction returns exactly the statement without
\* the label, with nothing appended, and does not find it incomplete.
C20_LabelledReplyExtractedExactly ==
  (xpc = "extracted" /\ llmReply = <<LabelledLine>>) =>
    extraction = [kind |-> "sql",
                  lines |-> <<WidgetsStatement>>,
                  incomplete |-> FALSE,
                  added1 |-> <<>>,
                  added2 |-> <<>>]

C20_Witness ==
  /\ xpc = "extracted"
  /\ llmReply = <<LabelledLine>>
  /\ extraction.kind = "sql"
  /\ extraction.lines = <<WidgetsStatement>>

(***************************************************************************)
(* The calls of generateSQLFromQuestion of one request.                    *)
(***************************************************************************)
\* the handler is past the generation loop
PastGeneration == cpc \in {"execute", "smart", "fallback", "simpler", "done"}

\* C21: generateSQLFromQuestion never throws. Whatever the oracle call does
\* (HTTP failure, no choices, no SELECT or WITH line, no FROM), the call
\* returns, and what it returns on a failure is null or the built-in
\* grouped-by-month statement; the route then goes on with the later steps.
C21_GenerationAlwaysReturns ==
  /\ \A i \in 1..Len(generations) :
       /\ generations[i].outcome = "returned"
       /\ generations[i].oracle \in OracleFailures
            => generations[i].sql \in {<<>>, SimplerMonthSQL}
  /\ (sqlGenerationAttempts = MaxAttempts(question) /\ routeSql = <<>>)
       => cpc \in {"smart", "fallback", "simpler", "done"}

\* a request whose two oracle calls failed, the first at the HTTP level, and
\* which has reached the fallback statement
C21_Witness ==
  /\ Len(generations) = 2
  /\ generations[1].oracle = "rejected"
  /\ generations[2].oracle = "no_from"
  /\ generations[2].sql = <<>>
  /\ cpc = "fallback"

\* C23: per request the synthesis oracle is called at most twice; the first
\* call uses the original message; a second call happens only for a
\* must-have-SQL question whose first call produced no SQL, and it uses the
\* strengthened instruction; any other question gets exactly one call.
C23_AtMostOneStrengthenedRetry ==
  /\ Len(generations) = sqlGenerationAttempts
  /\ Len(generations) <= 2
  /\ Len(generations) >= 1 => generations[1].prompt = "original"
  /\ Len(generations) = 2 =>
       /\ MustHaveSQL(question)
       /\ generations[1].sql = <<>>
       /\ generations[2].prompt = "strengthened"
  /\ (PastGeneration /\ ~MustHaveSQL(question)) => Len(generations) = 1
  /\ PastGeneration => Len(generations) >= 1

\* a must-have-SQL question whose first call gave nothing and whose second
\* call, made with the strengthened instruction, gave a statement
C23_Witness ==
  /\ Len(generations) = 2
  /\ generations[2].prompt = "strengthened"
  /\ generations[2].sql # <<>>
  /\ cpc = "execute"

(***************************************************************************)
(* The value executeSQLQuery returns.                                      *)
(***************************************************************************)
\* the object executeSQLQuery returns for each way the call ends: its error
\* text ("none" when there is no error field) and whether it has the field
\* sqlQuery holding the argument
ReturnedValue(res) ==
  CASE res = "unsafe" ->
         [error |-> "Only SELECT queries are allowed for safety", sqlQuery |-> FALSE]
    [] res = "not_select" ->
         [error |-> "Query must be a SELECT statement", sqlQuery |-> FALSE]
    [] res = "incomplete" ->
         [error |-> "Generated SQL query appears incomplete", sqlQuery |-> TRUE]
    [] res = "db_error" ->
         [error |-> "error.message", sqlQuery |-> TRUE]
    [] res = "conn_error" ->
         [error |-> "Database connection error. Please try again.", sqlQuery |-> TRUE]
    [] OTHER -> [error |-> "none", sqlQuery |-> FALSE]

\* the ways a call of executeSQLQuery with a non-empty argument fails
Failures == {"unsafe", "not_select", "incomplete", "db_error", "conn_error"}

\* C22: every failure of executeSQLQuery on a non-empty statement is returned
\* as a value with an error message and the original SQL, and the message of
\* a connection failure differs from the message of every other failure.
C22_FailureCarriesErrorAndSQL ==
  (vpc = "done" /\ result \in Failures) =>
     /\ ReturnedValue(result).error # "none"
     /\ ReturnedValue(result).sqlQuery
     /\ \A other \in Failures \ {"conn_error"} :
          ReturnedValue(other).error # ReturnedValue("conn_error").error

(***************************************************************************)
(* The date column of the order table.                                     *)
(***************************************************************************)
\* the date column by the priority of names: created_at, then createdat, then
\* order_date, then the first column of a timestamp or date type, else "null"
ByNamePriority(columns) ==
  IF "created_at" \in Names(columns) THEN "created_at"
  ELSE IF "createdat" \in Names(columns) THEN "createdat"
  ELSE IF "order_date" \in Names(columns) THEN "order_date"
  ELSE LET typed == SelectSeq(columns,
                              LAMBDA c : ContainsAny(c.type, {"timestamp", "date"}))
       IN  IF typed # <<>> THEN typed[1].name ELSE "null"

\* C24: the date column detectDateColumn returns for the order table is the
\* one the name priority gives: created_at whenever the table has it, whatever
\* the order of the columns and whatever other columns contain date or
\* created.
C24_DateColumnByNamePriority ==
  (tPattern = "orders_grouped_by_month" /\ DetectOrderTable(tSchema) # Null) =>
     LET ordersTable == DetectOrderTable(tSchema)
         expected == ByNamePriority(ordersTable.columns)
     IN  IF expected = "null" THEN tSql = Null
         ELSE /\ tSql # Null
              /\ tSql.refs = Refs(ordersTable.name, {expected})

(***************************************************************************)
(* What a fetching getSchema or refreshSchema returns, against the         *)
(* artifact.                                                               *)
(***************************************************************************)
\* the step returned a freshly fetched snapshot to the caller of getSchema
\* (forced refresh, cache disabled, or no usable artifact)
ReturnedFetched ==
  /\ lastReturn.mode \in {"fetch", "unparsable"}
  /\ IsSnapshot(lastReturn.ret)

\* C25: when refreshSchema, or getSchema on a miss or a forced refresh,
\* returns a snapshot, the artifact holds that snapshot: loadCachedSchema
\* gives the same tables and the same cachedAt.
C25_ReturnedSnapshotIsPersisted ==
  ReturnedFetched => LoadCachedSchema(file) = lastReturn.ret

\* no cacheSchema is between the opening of the artifact and the end of its
\* writeFile
NoWriteInProgress == \A act \in InFlight : act.pc # "cs_write"

\* C26: a refresh that fails (null introspection, or a write that throws)
\* leaves the artifact as it was, so that when no write is in progress the
\* artifact is absent or a whole snapshot, the earlier one or a new one, and
\* a reader still loads it.
C26_FailedRefreshLeavesArtifact ==
  NoWriteInProgress => file # Partial

(***************************************************************************)
(* Snapshots of unknown age.                                               *)
(***************************************************************************)
\* the age of the snapshot cannot be established
AgeUnknown(schema) ==
  IsSnapshot(schema) /\ schema.cachedAt \in {NoCachedAt, InvalidDate}

\* C27: a snapshot whose age cannot be established (no cachedAt, or a
\* cachedAt that is not a date) counts as stale: when getSchema returns such
\* a snapshot from the artifact, it has started a refresh.
C27_UnknownAgeIsStale ==
  (lastReturn.mode \in {"fresh", "stale"} /\ AgeUnknown(lastReturn.ret)) =>
     /\ lastReturn.mode = "stale"
     /\ lastReturn.started
     /\ IsCacheStale(lastReturn.ret, DefaultMaxAgeHours, clock)

(***************************************************************************)
(* How executeSmartQuery ends.                                             *)
(***************************************************************************)
\* C28: executeSmartQuery never throws: its promise is never rejected, and it
\* resolves with null only when no pattern statement could be generated (a
\* statement that fails at the database gives a value with success false).
C28_SmartQueryNeverThrows ==
  /\ smartQueryPromise # "rejected"
  /\ smartQueryPromise = "resolved_null"
       => SmartSQL(SmartQueryPattern(question), orderTable) = <<>>

(***************************************************************************)
(* The health probe of config/database.js: checkDatabaseHealth, the        *)
(* interval timer and getDatabaseHealth, over the pool of at most PoolMax  *)
(* clients.                                                                *)
(***************************************************************************)
\* max of the pool configuration
PoolMax == 10

\* the clients pool.connect() can still hand out
Available == PoolMax - querying - leaked

InFlightProbes == connecting + querying

InitHealth ==
  /\ dbUp \in BOOLEAN
  /\ isDatabaseHealthy = FALSE
  /\ connecting = 0
  /\ querying = 0
  /\ leaked = 0
  /\ intervals = 0
  /\ IdleValidator /\ IdleRetry /\ IdleCache /\ IdleChat /\ IdleIntro
  /\ IdleTemplate /\ IdleExtract /\ IdlePool

\* the callback of setInterval: it calls checkDatabaseHealth only when the
\* flag says unhealthy
IntervalElapses ==
  /\ intervals' = (intervals + 1) % (MaxIntervals + 1)
  /\ connecting' = IF ~isDatabaseHealthy /\ InFlightProbes < MaxProbes
                   THEN connecting + 1
                   ELSE connecting
  /\ UNCHANGED <<dbUp, isDatabaseHealthy, querying, leaked, exceptHealth>>

\* getDatabaseHealth, called by the handlers of GET /api/health and GET /:
\* it calls checkDatabaseHealth whatever the flag says
GetDatabaseHealth ==
  /\ InFlightProbes < MaxProbes
  /\ connecting' = connecting + 1
  /\ UNCHANGED <<dbUp, isDatabaseHealthy, querying, leaked, intervals, exceptHealth>>

\* checkDatabaseHealth: `await pool.connect()` settles. It resolves with a
\* client when the server answers and the pool has a client to give; else it
\* rejects (refused, or connectionTimeoutMillis elapsed) and the catch block
\* sets the flag.
ConnectSettles ==
  /\ connecting > 0
  /\ connecting' = connecting - 1
  /\ IF dbUp /\ Available > 0
     THEN /\ querying' = querying + 1
          /\ UNCHANGED isDatabaseHealthy
     ELSE /\ isDatabaseHealthy' = FALSE
          /\ UNCHANGED querying
  /\ UNCHANGED <<dbUp, leaked, intervals, exceptHealth>>

\* checkDatabaseHealth: `await client.query('SELECT 1')` settles. When it
\* throws, the catch block sets the flag and returns; client.release() is the
\* statement after the query in the try block and is skipped, so the client
\* stays checked out.
QuerySettles ==
  /\ querying > 0
  /\ querying' = querying - 1
  /\ IF dbUp
     THEN /\ isDatabaseHealthy' = TRUE
          /\ UNCHANGED leaked
     ELSE /\ isDatabaseHealthy' = FALSE
          /\ leaked' = leaked + 1
  /\ UNCHANGED <<dbUp, connecting, intervals, exceptHealth>>

\* the database server becomes unreachable, or reachable again
DatabaseGoesDown ==
  /\ dbUp
  /\ dbUp' = FALSE
  /\ UNCHANGED <<isDatabaseHealthy, connecting, querying, leaked, intervals, exceptHealth>>

DatabaseComesUp ==
  /\ ~dbUp
  /\ dbUp' = TRUE
  /\ UNCHANGED <<isDatabaseHealthy, connecting, querying, leaked, intervals, exceptHealth>>

NextHealth ==
  \/ IntervalElapses
  \/ GetDatabaseHealth
  \/ ConnectSettles
  \/ QuerySettles
  \/ DatabaseGoesDown
  \/ DatabaseComesUp

SpecHealth == InitHealth /\ [][NextHealth]_vars

\* the timer fires every HEALTH_CHECK_INTERVAL, and an awaited connect or
\* query settles (connectionTimeoutMillis, query_timeout); nothing makes a
\* client call getDatabaseHealth or the server change
SpecHealthFair ==
  /\ SpecHealth
  /\ WF_vars(IntervalElapses)
  /\ WF_vars(ConnectSettles)
  /\ WF_vars(QuerySettles)

\* isDatabaseAvailable()
IsDatabaseAvailable == isDatabaseHealthy

\* C29: every client checkDatabaseHealth acquires is released before the probe
\* returns, also when SELECT 1 throws: no client stays checked out for good,
\* and with no probe holding a client the pool can hand out all of its clients.
C29_ProbeClientsReleased ==
  /\ leaked = 0
  /\ querying = 0 => Available = PoolMax

\* C30: once the database is unreachable while the flag says healthy, the
\* periodic probe eventually sets the flag to unhealthy (unless the database
\* comes back first), with no call of getDatabaseHealth needed.
C30_OutageEventuallyFlagged ==
  (~dbUp /\ IsDatabaseAvailable) ~> (~IsDatabaseAvailable \/ dbUp)

=============================================================================
